---- MODULE Spec2Model ----
(***************************************************************************)
(* doccer: the parse -> render -> print pipeline over a rustdoc            *)
(* documentation graph (src/src/parser/parser.rs, src/src/parser/types.rs, *)
(* src/src/renderer/*.rs, src/src/main.rs).                                *)
(*                                                                         *)
(* Representation choices                                                  *)
(*   Option<T>       a sequence of length 0 (None) or 1 (Some)             *)
(*   Result<T>       [ok |-> TRUE, val |-> v] or [ok |-> FALSE, err |-> m] *)
(*   serde_json      a tagged record, the payload under a field per tag    *)
(*   a path string   the sequence of its `::`-separated segments; the      *)
(*                   text is JoinPath of it, `split("::")` is the sequence *)
(*   output text     a sequence of lines, a line being its count of        *)
(*                   leading indentation spaces and the rest of its text   *)
(***************************************************************************)
EXTENDS Integers, Sequences, FiniteSets, TLC

VARIABLES
    crate_data,   \* the Crate handed to ItemParser::new: [root, index, crate_version]
    pc,           \* position of main: "parse", "render", "print", "done", "failed", "idle"
    parsed,       \* the value parse_crate returned (an Option of its Result)
    output,       \* the string ParsedRenderer::render returned (an Option)
    stdout,       \* what println! has written, one entry per call
    raw,          \* the serde_json value handed to parse_type
    tpc,          \* position of the type resolver run: "raw", "parsed", "shown", "idle"
    ty,           \* the RustType parse_type returned (an Option)
    text,         \* the to_string() of ty (an Option)
    module_path,  \* the --module-path of a stdlib run, split at "::" (an Option)
    filtered,     \* the value filter_by_module_path returned (an Option of its Result)
    stack         \* the parse_module calls in progress: [id, next] per call

vars == <<crate_data, pc, parsed, output, stdout, raw, tpc, ty, text,
          module_path, filtered, stack>>

pipeVars == <<crate_data, pc, parsed, output, stdout>>
typeVars == <<raw, tpc, ty, text>>
walkVars == <<module_path, filtered, stack>>

(***************************************************************************)
(* Option and Result                                                       *)
(***************************************************************************)
None == <<>>
Some(x) == <<x>>
IsSome(o) == Len(o) = 1
IsNone(o) == Len(o) = 0
Unwrap(o) == o[1]
UnwrapOr(o, d) == IF IsSome(o) THEN o[1] ELSE d

Ok(v) == [ok |-> TRUE, val |-> v]
Err(m) == [ok |-> FALSE, err |-> m]
\* a panic unwinds through every caller: a failure that is not an Err value
Panic(m) == [ok |-> FALSE, err |-> m, panic |-> TRUE]

(***************************************************************************)
(* Strings                                                                 *)
(***************************************************************************)
RECURSIVE Join(_, _)
\* Vec<String>::join(sep)
Join(strs, sep) ==
    IF Len(strs) = 0 THEN ""
    ELSE IF Len(strs) = 1 THEN strs[1]
    ELSE strs[1] \o sep \o Join(Tail(strs), sep)

\* the text of a path held as its `::`-separated segments
JoinPath(segs) == Join(segs, "::")

\* str::split("::").last()
LastSegment(segs) == segs[Len(segs)]

(***************************************************************************)
(* serde_json::Value                                                       *)
(***************************************************************************)
JNull == [t |-> "null"]
JBool(b) == [t |-> "bool", b |-> b]
JNum(n) == [t |-> "num", n |-> n]
JStr(s) == [t |-> "str", s |-> s]
JArr(a) == [t |-> "arr", a |-> a]
JObj(o) == [t |-> "obj", o |-> o]

\* Value::get(key) with a string key: Some only on an object holding the key
Get(val, key) ==
    IF val.t = "obj" /\ key \in DOMAIN val.o THEN Some(val.o[key]) ELSE None

\* Option<&Value>::and_then(|v| v.get(key))
AndGet(opt, key) == IF IsSome(opt) THEN Get(Unwrap(opt), key) ELSE None

is_null(val) == val.t = "null"
as_str(val) == IF val.t = "str" THEN Some(val.s) ELSE None
as_bool(val) == IF val.t = "bool" THEN Some(val.b) ELSE None
as_array(val) == IF val.t = "arr" THEN Some(val.a) ELSE None

AndStr(opt) == IF IsSome(opt) THEN as_str(Unwrap(opt)) ELSE None
AndBool(opt) == IF IsSome(opt) THEN as_bool(Unwrap(opt)) ELSE None
AndArray(opt) == IF IsSome(opt) THEN as_array(Unwrap(opt)) ELSE None

\* Value::to_string(): the JSON serialization of a scalar; a string is
\* written between double quotes
JsonToString(val) ==
    CASE val.t = "null" -> "null"
      [] val.t = "bool" -> (IF val.b THEN "true" ELSE "false")
      [] val.t = "num" -> ToString(val.n)
      [] val.t = "str" -> "\"" \o val.s \o "\""

(***************************************************************************)
(* RustType (types.rs) and its Display                                     *)
(***************************************************************************)
Primitive(name) == [variant |-> "Primitive", name |-> name]
Generic(name) == [variant |-> "Generic", name |-> name]
Reference(lifetime, mutable, inner) ==
    [variant |-> "Reference", lifetime |-> lifetime, mutable |-> mutable, inner |-> inner]
Tuple(elements) == [variant |-> "Tuple", elements |-> elements]
Slice(inner) == [variant |-> "Slice", inner |-> inner]
Array(inner, size) == [variant |-> "Array", inner |-> inner, size |-> size]
Path(path, generics) == [variant |-> "Path", path |-> path, generics |-> generics]
RawPointer(mutable, inner) == [variant |-> "RawPointer", mutable |-> mutable, inner |-> inner]
QualifiedPath(base, name) == [variant |-> "QualifiedPath", base |-> base, name |-> name]
DynTrait(traits, lifetime) == [variant |-> "DynTrait", traits |-> traits, lifetime |-> lifetime]
Unit == [variant |-> "Unit"]
Unknown == [variant |-> "Unknown"]

\* RustType::Unknown => write!(f, "...")

\* RustType::Reference: "&", then the lifetime and a space, then "mut ", then the inner type
DisplayReference(lifetime, mutable, innerText) ==
    "&" \o (IF IsSome(lifetime) THEN Unwrap(lifetime) \o " " ELSE "")
        \o (IF mutable THEN "mut " ELSE "")
        \o innerText

\* RustType::DynTrait has no arm in the Display of types.rs
DisplayDynTrait(traits, lifetime) ==
    "dyn " \o Join(traits, " + ")
           \o (IF IsSome(lifetime) THEN " + " \o Unwrap(lifetime) ELSE "")

RECURSIVE Display(_)
\* impl std::fmt::Display for RustType
Display(t) ==
    CASE t.variant = "Primitive" -> t.name
      [] t.variant = "Generic" -> t.name
      [] t.variant = "Reference" -> DisplayReference(t.lifetime, t.mutable, Display(t.inner))
      [] t.variant = "Tuple" ->
            IF Len(t.elements) = 0 THEN "()"
            ELSE "(" \o Join([i \in 1..Len(t.elements) |-> Display(t.elements[i])], ", ") \o ")"
      [] t.variant = "Slice" -> "[" \o Display(t.inner) \o "]"
      [] t.variant = "Array" -> "[" \o Display(t.inner) \o "; " \o t.size \o "]"
      [] t.variant = "Path" ->
            IF Len(t.generics) = 0 THEN JoinPath(t.path)
            ELSE JoinPath(t.path) \o "<"
                 \o Join([i \in 1..Len(t.generics) |-> Display(t.generics[i])], ", ") \o ">"
      [] t.variant = "RawPointer" ->
            IF t.mutable THEN "*mut " \o Display(t.inner) ELSE "*const " \o Display(t.inner)
      [] t.variant = "QualifiedPath" -> t.base \o "::" \o t.name
      [] t.variant = "DynTrait" -> DisplayDynTrait(t.traits, t.lifetime)
      [] t.variant = "Unit" -> "()"
      [] t.variant = "Unknown" -> "..."

(***************************************************************************)
(* ItemParser::parse_type (parser.rs)                                      *)
(***************************************************************************)
\* a resolver that keeps the path as it is written
KeepPath(path) == path

\* the normalisation of `$crate::` paths to their standard library names
NormalizePath(path) ==
    \* path.starts_with("$crate::")
    IF Len(path) >= 2 /\ path[1] = "$crate" THEN
        CASE path = <<"$crate", "fmt", "Formatter">> -> <<"std", "fmt", "Formatter">>
          [] path = <<"$crate", "fmt", "Result">> -> <<"std", "fmt", "Result">>
          [] path = <<"$crate", "clone", "Clone">> -> <<"Clone">>
          [] path = <<"$crate", "cmp", "PartialEq">> -> <<"PartialEq">>
          [] OTHER ->
                \* other.replace("$crate::", "std::"): every occurrence
                [i \in 1..Len(path) |->
                    IF i < Len(path) /\ path[i] = "$crate" THEN "std" ELSE path[i]]
    ELSE path

\* array.get("len").map(|l| l.to_string()).unwrap_or_else(|| "N".to_string())
ArraySize(array) ==
    LET len == Get(array, "len") IN
    IF IsSome(len) THEN JsonToString(Unwrap(len)) ELSE "N"

\* the `qualified_path` arm is taken only when the payload has a string `name`
QualifiedNameOrDefault(qualified_path) ==
    Some(UnwrapOr(AndStr(Get(qualified_path, "name")), "unknown"))
QualifiedName(qualified_path) == AndStr(Get(qualified_path, "name"))

RECURSIVE parse_type(_)
\* the `resolved_path` arm: the type arguments, in order
ResolvedPathGenerics(resolved_path) ==
    LET args_array == AndArray(AndGet(AndGet(Get(resolved_path, "args"),
                                             "angle_bracketed"), "args")) IN
    IF IsNone(args_array) THEN <<>>
    ELSE LET typed == SelectSeq(Unwrap(args_array), LAMBDA a : IsSome(Get(a, "type"))) IN
         [i \in 1..Len(typed) |-> parse_type(Unwrap(Get(typed[i], "type")))]

\* the `dyn_trait` arm: one string per trait that has a string path
DynTraitStr(trait_info) ==
    LET path == Unwrap(AndStr(Get(trait_info, "path")))
        constraints == AndArray(AndGet(AndGet(Get(trait_info, "args"),
                                              "angle_bracketed"), "constraints"))
        usable == IF IsNone(constraints) THEN <<>>
                  ELSE SelectSeq(Unwrap(constraints), LAMBDA c :
                         /\ IsSome(AndStr(Get(c, "name")))
                         /\ IsSome(AndGet(AndGet(Get(c, "binding"), "equality"), "type")))
        constraint_strs ==
            [i \in 1..Len(usable) |->
                Unwrap(AndStr(Get(usable[i], "name"))) \o " = "
                \o Display(parse_type(Unwrap(AndGet(AndGet(Get(usable[i], "binding"),
                                                           "equality"), "type"))))]
    IN JoinPath(path)
       \o (IF Len(constraint_strs) > 0 THEN "<" \o Join(constraint_strs, ", ") \o ">" ELSE "")

DynTraitTraits(dyn_trait) ==
    LET traits_array == AndArray(Get(dyn_trait, "traits")) IN
    IF IsNone(traits_array) THEN <<>>
    ELSE LET named == SelectSeq(Unwrap(traits_array), LAMBDA ti :
                        IsSome(AndStr(AndGet(Get(ti, "trait"), "path")))) IN
         [i \in 1..Len(named) |-> DynTraitStr(Unwrap(Get(named[i], "trait")))]

\* fn parse_type(&self, type_val: &serde_json::Value) -> RustType
parse_type(type_val) ==
    LET primitive == Get(type_val, "primitive")
        generic == Get(type_val, "generic")
        resolved_path == Get(type_val, "resolved_path")
        borrowed_ref == Get(type_val, "borrowed_ref")
        tuple == Get(type_val, "tuple")
        slice == Get(type_val, "slice")
        array == Get(type_val, "array")
        raw_pointer == Get(type_val, "raw_pointer")
        qualified_path == Get(type_val, "qualified_path")
        dyn_trait == Get(type_val, "dyn_trait")
        InnerOf(holder) ==
            IF IsSome(Get(holder, "type")) THEN parse_type(Unwrap(Get(holder, "type")))
            ELSE Unknown
        IsMutable(holder) == UnwrapOr(AndBool(Get(holder, "is_mutable")), FALSE)
    IN
    IF is_null(type_val) THEN Unit
    ELSE IF IsSome(AndStr(primitive)) THEN Primitive(Unwrap(AndStr(primitive)))
    ELSE IF IsSome(AndStr(generic)) THEN Generic(Unwrap(AndStr(generic)))
    ELSE IF IsSome(resolved_path) THEN
        Path(NormalizePath(UnwrapOr(AndStr(Get(Unwrap(resolved_path), "path")), <<"unknown">>)),
             ResolvedPathGenerics(Unwrap(resolved_path)))
    ELSE IF IsSome(borrowed_ref) THEN
        Reference(AndStr(Get(Unwrap(borrowed_ref), "lifetime")),
                  IsMutable(Unwrap(borrowed_ref)),
                  InnerOf(Unwrap(borrowed_ref)))
    ELSE IF IsSome(AndArray(tuple)) THEN
        LET tuple_array == Unwrap(AndArray(tuple)) IN
        IF Len(tuple_array) = 0 THEN Unit
        ELSE Tuple([i \in 1..Len(tuple_array) |-> parse_type(tuple_array[i])])
    ELSE IF IsSome(slice) THEN Slice(parse_type(Unwrap(slice)))
    ELSE IF IsSome(array) /\ IsSome(Get(Unwrap(array), "type")) THEN
        Array(parse_type(Unwrap(Get(Unwrap(array), "type"))), ArraySize(Unwrap(array)))
    ELSE IF IsSome(raw_pointer) THEN
        RawPointer(IsMutable(Unwrap(raw_pointer)), InnerOf(Unwrap(raw_pointer)))
    ELSE IF IsSome(qualified_path) /\ IsSome(QualifiedName(Unwrap(qualified_path))) THEN
        QualifiedPath("Self", Unwrap(QualifiedName(Unwrap(qualified_path))))
    ELSE IF IsSome(dyn_trait) THEN
        DynTrait(DynTraitTraits(Unwrap(dyn_trait)),
                 AndStr(Get(Unwrap(dyn_trait), "lifetime")))
    ELSE Unknown

(***************************************************************************)
(* The documentation graph: rustdoc_types::Crate, Item and ItemEnum        *)
(*                                                                         *)
(* An Item is [name, visibility, docs, attrs, deprecation, inner]; inner   *)
(* carries `kind` and the fields of its ItemEnum variant. An attribute is  *)
(* held as the sequence of its tokens, docs as the sequence of its lines.  *)
(***************************************************************************)
\* self.crate_data.index.get(id)
IndexGet(c, id) == IF id \in DOMAIN c.index THEN Some(c.index[id]) ELSE None

EmptyGenerics == [params |-> <<>>, where_clauses |-> <<>>]

\* serde_json::to_value of a Vec<Id>
IdsJson(ids) == JArr([i \in 1..Len(ids) |-> JNum(ids[i])])

\* Value::as_u64
as_u64(val) == IF val.t = "num" /\ val.n >= 0 THEN Some(val.n) ELSE None

\* serde_json::to_value(impl_inner) of an ItemEnum::Impl
ImplJson(inner) ==
    JObj([is_synthetic |-> JBool(inner.is_synthetic),
          blanket_impl |-> UnwrapOr(inner.blanket_impl, JNull),
          trait |-> IF IsSome(inner.trait_)
                    THEN JObj([path |-> JStr(Unwrap(inner.trait_).path)])
                    ELSE JNull,
          for |-> inner.for_,
          items |-> IdsJson(inner.items)])

\* serde_json::to_value(struct_data) of an ItemEnum::Struct
StructJson(inner) ==
    JObj([kind |-> IF inner.struct_kind = "plain"
                   THEN JObj([plain |-> JObj([fields |-> IdsJson(inner.fields),
                                              has_stripped_fields |-> JBool(FALSE)])])
                   ELSE IF inner.struct_kind = "tuple"
                   THEN JObj([tuple |-> IdsJson(inner.fields)])
                   ELSE JStr("unit"),
          generics |-> inner.generics,
          impls |-> IdsJson(inner.impls)])

(***************************************************************************)
(* ItemParser (parser.rs)                                                  *)
(***************************************************************************)
\* the trait names should_filter_trait_impl suppresses
filtered_traits ==
    { "Send", "Sync", "Freeze", "Unpin", "UnwindSafe", "RefUnwindSafe", "Borrow",
      "BorrowMut", "Into", "From", "TryInto", "TryFrom", "Any", "CloneToUninit",
      "ToOwned", "StructuralPartialEq", "ToString", "IntoFuture" }

\* attr.contains("#[derive")
ContainsDerive(attr) == \E i \in 1..Len(attr) : attr[i] = "#[derive"

\* the filter without its blanket-implementation check
ShouldFilterNoBlanket(impl_item, impl_data) ==
    LET is_synthetic == AndBool(Get(impl_data, "is_synthetic"))
        trait_path == AndStr(AndGet(Get(impl_data, "trait"), "path"))
    IN
    \/ IsSome(is_synthetic) /\ Unwrap(is_synthetic)
    \/ \E i \in 1..Len(impl_item.attrs) : ContainsDerive(impl_item.attrs[i])
    \/ IsSome(trait_path) /\ LastSegment(Unwrap(trait_path)) \in filtered_traits

\* fn should_filter_trait_impl(&self, impl_item, impl_data) -> bool
should_filter_trait_impl(impl_item, impl_data) ==
    LET is_synthetic == AndBool(Get(impl_data, "is_synthetic"))
        blanket_impl == Get(impl_data, "blanket_impl")
        trait_path == AndStr(AndGet(Get(impl_data, "trait"), "path"))
    IN
    IF IsSome(is_synthetic) /\ Unwrap(is_synthetic) THEN TRUE
    ELSE IF \E i \in 1..Len(impl_item.attrs) : ContainsDerive(impl_item.attrs[i]) THEN TRUE
    ELSE IF IsSome(blanket_impl) /\ ~is_null(Unwrap(blanket_impl)) THEN TRUE
    ELSE IF IsSome(trait_path) /\ LastSegment(Unwrap(trait_path)) \in filtered_traits THEN TRUE
    ELSE FALSE

\* the paths of the trait bounds, last bound first
TraitBoundPathsReversed(holder) ==
    LET bounds_array == AndArray(Get(holder, "bounds")) IN
    IF IsNone(bounds_array) THEN <<>>
    ELSE LET withPath == SelectSeq(Unwrap(bounds_array), LAMBDA b :
                IsSome(AndStr(AndGet(AndGet(Get(b, "trait_bound"), "trait"), "path")))) IN
         [i \in 1..Len(withPath) |->
            JoinPath(Unwrap(AndStr(AndGet(AndGet(Get(withPath[Len(withPath) + 1 - i],
                                                     "trait_bound"), "trait"), "path"))))]

\* the bounds of a generic parameter or of a where predicate: the paths of
\* its trait bounds, in order
TraitBoundPaths(holder) ==
    LET bounds_array == AndArray(Get(holder, "bounds")) IN
    IF IsNone(bounds_array) THEN <<>>
    ELSE LET withPath == SelectSeq(Unwrap(bounds_array), LAMBDA b :
                IsSome(AndStr(AndGet(AndGet(Get(b, "trait_bound"), "trait"), "path")))) IN
         [i \in 1..Len(withPath) |->
            JoinPath(Unwrap(AndStr(AndGet(AndGet(Get(withPath[i], "trait_bound"),
                                                 "trait"), "path"))))]

\* fn parse_generics(&self, generics: &serde_json::Value) -> Generics
parse_generics(generics) ==
    LET params_array == AndArray(Get(generics, "params"))
        IsTypeParam(param) == IsSome(AndGet(Get(param, "kind"), "type"))
        kept == IF IsNone(params_array) THEN <<>>
                ELSE SelectSeq(Unwrap(params_array), LAMBDA param :
                        /\ IsSome(AndStr(Get(param, "name")))
                        /\ \/ IsTypeParam(param)
                           \/ IsSome(AndGet(Get(param, "kind"), "lifetime")))
        params == [i \in 1..Len(kept) |->
                    IF IsTypeParam(kept[i])
                    THEN [name |-> Unwrap(AndStr(Get(kept[i], "name"))),
                          kind |-> [variant |-> "Type",
                                    bounds |-> TraitBoundPaths(
                                                 Unwrap(AndGet(Get(kept[i], "kind"), "type")))]]
                    ELSE [name |-> Unwrap(AndStr(Get(kept[i], "name"))),
                          kind |-> [variant |-> "Lifetime"]]]
        where_predicates == AndArray(Get(generics, "where_predicates"))
        bound_predicates ==
            IF IsNone(where_predicates) THEN <<>>
            ELSE LET usable == SelectSeq(Unwrap(where_predicates), LAMBDA pred :
                        /\ IsSome(AndGet(Get(pred, "bound_predicate"), "type"))
                        /\ Len(TraitBoundPaths(Unwrap(Get(pred, "bound_predicate")))) > 0) IN
                 [i \in 1..Len(usable) |-> Unwrap(Get(usable[i], "bound_predicate"))]
        TypeName(bp) == UnwrapOr(AndStr(AndGet(Get(bp, "type"), "generic")), "Self")
    IN [params |-> params,
        where_clauses |-> [i \in 1..Len(bound_predicates) |->
                             TypeName(bound_predicates[i]) \o ": "
                             \o Join(TraitBoundPaths(bound_predicates[i]), " + ")]]

\* a name check that settles for a placeholder: .unwrap_or("unknown")
NameOrUnknown(item, what) == Ok(UnwrapOr(item.name, "unknown"))

\* item.name ... .ok_or_else(|| anyhow::anyhow!("<kind> missing name"))?
RequireName(item, what) ==
    IF IsSome(item.name) THEN Ok(Unwrap(item.name)) ELSE Err(what \o " missing name")

\* fn parse_function(&self, item, func_data) -> Result<Option<ParsedFunction>>
parse_function(item, func_data) ==
    LET name == RequireName(item, "Function")
        generics == IF IsSome(Get(func_data, "generics"))
                    THEN parse_generics(Unwrap(Get(func_data, "generics")))
                    ELSE EmptyGenerics
        inputs_array == AndArray(AndGet(Get(func_data, "sig"), "inputs"))
        pairs == IF IsNone(inputs_array) THEN <<>>
                 ELSE SelectSeq(Unwrap(inputs_array), LAMBDA input :
                        /\ IsSome(as_array(input))
                        /\ Len(Unwrap(as_array(input))) = 2
                        /\ IsSome(as_str(Unwrap(as_array(input))[1])))
        inputs == [i \in 1..Len(pairs) |->
                     <<Unwrap(as_str(pairs[i].a[1])), parse_type(pairs[i].a[2])>>]
        output_val == AndGet(Get(func_data, "sig"), "output")
        output_ty == IF IsSome(output_val) THEN parse_type(Unwrap(output_val)) ELSE Unit
        async_flag == AndGet(Get(func_data, "header"), "is_async")
        is_async == IF IsSome(async_flag) THEN UnwrapOr(as_bool(Unwrap(async_flag)), FALSE)
                    ELSE FALSE
    IN
    IF ~name.ok THEN name
    ELSE Ok(Some([variant |-> "Function",
                  signature |-> [name |-> name.val,
                                 visibility |-> item.visibility,
                                 generics |-> generics,
                                 inputs |-> inputs,
                                 output |-> output_ty,
                                 is_async |-> is_async],
                  docs |-> item.docs,
                  deprecation |-> item.deprecation]))

\* serde_json::to_value(func_data) of an ItemEnum::Function
FunctionJson(inner) ==
    JObj([sig |-> inner.sig, generics |-> inner.generics, header |-> inner.header,
          has_body |-> JBool(TRUE)])

\* a loop that puts each result in front of the ones collected before
RECURSIVE CollectReversed(_)
CollectReversed(results) ==
    IF results = <<>> THEN Ok(<<>>)
    ELSE IF ~Head(results).ok THEN Head(results)
    ELSE LET rest == CollectReversed(Tail(results)) IN
         IF ~rest.ok THEN rest ELSE Ok(rest.val \o Head(results).val)

\* `for x in xs { if let Some(p) = f(x)? { out.push(p); } }`, given the
\* result of f on each x: the first failure, or the Some results in order
RECURSIVE TryCollect(_)
TryCollect(results) ==
    IF results = <<>> THEN Ok(<<>>)
    ELSE IF ~Head(results).ok THEN Head(results)
    ELSE LET rest == TryCollect(Tail(results)) IN
         IF ~rest.ok THEN rest ELSE Ok(Head(results).val \o rest.val)

\* the ids of a JSON array of ids: entries that are not u64 are skipped
IdsOf(arr) ==
    IF IsNone(arr) THEN <<>>
    ELSE LET nums == SelectSeq(Unwrap(arr), LAMBDA v : IsSome(as_u64(v))) IN
         [i \in 1..Len(nums) |-> Unwrap(as_u64(nums[i]))]

\* the records of the listed ids up to the first id without a record
RECURSIVE PresentUntilMissing(_, _)
PresentUntilMissing(c, ids) ==
    IF ids = <<>> \/ IsNone(IndexGet(c, Head(ids))) THEN <<>>
    ELSE <<Unwrap(IndexGet(c, Head(ids)))>> \o PresentUntilMissing(c, Tail(ids))

\* the records of the listed ids, in order; ids without a record are skipped
Present(c, ids) ==
    LET known == SelectSeq(ids, LAMBDA id : IsSome(IndexGet(c, id))) IN
    [i \in 1..Len(known) |-> Unwrap(IndexGet(c, known[i]))]

\* Option<Generics> of a data object, defaulting to no generics
GenericsOf(data) ==
    IF IsSome(Get(data, "generics")) THEN parse_generics(Unwrap(Get(data, "generics")))
    ELSE EmptyGenerics

\* `if let Some(parsed_func) = self.parse_function(..)? { return
\* Ok(Some(..::Method(parsed_func))) }` of parse_trait_item and of
\* parse_trait_impl_item, given what parse_function returned
MethodOf(parsed_func) ==
    IF ~parsed_func.ok THEN parsed_func
    ELSE Ok(Some([variant |-> "Method", func |-> Unwrap(parsed_func.val)]))

\* fn parse_trait_impl_item(&self, item) -> Result<Option<ParsedTraitImplItem>>
parse_trait_impl_item(item) ==
    IF item.inner.kind = "assoc_type"
    THEN Ok(Some([variant |-> "AssocType",
                  name |-> UnwrapOr(item.name, "unknown"),
                  ty |-> parse_type(UnwrapOr(item.inner.type_, JNull))]))
    ELSE IF item.inner.kind = "function"
    THEN MethodOf(parse_function(item, FunctionJson(item.inner)))
    ELSE Ok(None)

\* parse_trait_impl, its return: the `?` of the item loop, then
\* Ok(Some(ParsedTraitImpl { trait_path, for_type, items, docs }))
TraitImplOf(item, trait_path, for_type, items) ==
    IF ~items.ok THEN items
    ELSE Ok(Some([variant |-> "TraitImpl",
                  trait_path |-> trait_path,
                  for_type |-> for_type,
                  items |-> items.val,
                  docs |-> item.docs]))

\* fn parse_trait_impl(&self, item, impl_data) -> Result<Option<ParsedTraitImpl>>
parse_trait_impl(c, item, impl_data) ==
    LET trait_ref == Get(impl_data, "trait") IN
    IF IsSome(trait_ref) /\ ~is_null(Unwrap(trait_ref))
    THEN TraitImplOf(item,
                     UnwrapOr(AndStr(Get(Unwrap(trait_ref), "path")), <<"unknown">>),
                     IF IsSome(Get(impl_data, "for"))
                     THEN parse_type(Unwrap(Get(impl_data, "for")))
                     ELSE Unknown,
                     LET impl_items == Present(c, IdsOf(AndArray(Get(impl_data, "items")))) IN
                     TryCollect([i \in 1..Len(impl_items) |->
                                   parse_trait_impl_item(impl_items[i])]))
    ELSE Ok(None)

\* parse_struct, "Parse struct fields": the plain fields that are StructField
\* records
StructFields(c, struct_data) ==
    LET field_ids == AndGet(AndGet(Get(struct_data, "kind"), "plain"), "fields")
        field_items == SelectSeq(Present(c, IdsOf(AndArray(field_ids))),
                                 LAMBDA f : f.inner.kind = "struct_field")
    IN [i \in 1..Len(field_items) |->
          [name |-> UnwrapOr(field_items[i].name, "unnamed"),
           visibility |-> field_items[i].visibility,
           field_type |-> parse_type(field_items[i].inner.type_),
           docs |-> field_items[i].docs,
           deprecation |-> field_items[i].deprecation]]

\* parse_struct, inherent impl: the impl's function items become methods
InherentMethods(c, impl_item) ==
    LET fns == SelectSeq(Present(c, impl_item.inner.items),
                         LAMBDA m : m.inner.kind = "function") IN
    TryCollect([i \in 1..Len(fns) |-> parse_function(fns[i], FunctionJson(fns[i].inner))])

\* a trait impl parsed first and filtered afterwards
ParsedThenFiltered(c, impl_item, impl_json) ==
    IF ~parse_trait_impl(c, impl_item, impl_json).ok
    THEN parse_trait_impl(c, impl_item, impl_json)
    ELSE IF should_filter_trait_impl(impl_item, impl_json) THEN Ok(None)
    ELSE parse_trait_impl(c, impl_item, impl_json)

\* parse_struct, trait impl: parsed only if it should not be filtered
KeptTraitImpl(c, impl_item, impl_json) ==
    IF ~should_filter_trait_impl(impl_item, impl_json)
    THEN parse_trait_impl(c, impl_item, impl_json)
    ELSE Ok(None)

\* parse_struct, "Parse methods from impl blocks": one impl of the list adds
\* methods (inherent impl) or at most one trait impl
StructImpl(c, impl_item) ==
    IF IsNone(impl_item.inner.trait_)
    THEN InherentMethods(c, impl_item)
    ELSE KeptTraitImpl(c, impl_item, ImplJson(impl_item.inner))

\* parse_struct, its return: the `?` of the name and of the impl loop, then
\* Ok(Some(ParsedStruct { .. })); parts holds what the impl blocks pushed,
\* in order: ParsedFunction to methods, ParsedTraitImpl to trait_impls
StructOf(c, item, struct_data, name, parts) ==
    IF ~name.ok THEN name
    ELSE IF ~parts.ok THEN parts
    ELSE Ok(Some([variant |-> "Struct",
                  name |-> name.val,
                  visibility |-> item.visibility,
                  generics |-> GenericsOf(struct_data),
                  docs |-> item.docs,
                  deprecation |-> item.deprecation,
                  fields |-> StructFields(c, struct_data),
                  methods |-> SelectSeq(parts.val, LAMBDA p : p.variant = "Function"),
                  trait_impls |-> SelectSeq(parts.val, LAMBDA p : p.variant = "TraitImpl")]))

\* fn parse_struct(&self, item, struct_data) -> Result<Option<ParsedStruct>>
parse_struct(c, item, struct_data) ==
    StructOf(c, item, struct_data, RequireName(item, "Struct"),
             LET impl_items == SelectSeq(Present(c, IdsOf(AndArray(Get(struct_data, "impls")))),
                                         LAMBDA i : i.inner.kind = "impl") IN
             TryCollect([i \in 1..Len(impl_items) |-> StructImpl(c, impl_items[i])]))

\* the types of the StructField records among the listed ids
FieldItems(c, ids) ==
    SelectSeq(Present(c, ids), LAMBDA f : f.inner.kind = "struct_field")

\* fn parse_variant(&self, item) -> Result<Option<ParsedVariant>>
parse_variant(c, item) ==
    LET name == RequireName(item, "Variant")
        variant_data == item.inner
        tuple_ids == LET some == SelectSeq(variant_data.fields, IsSome) IN
                     [i \in 1..Len(some) |-> Unwrap(some[i])]
        kind == IF item.inner.kind = "variant"
                THEN IF variant_data.variant_kind = "plain"
                     THEN [variant |-> "Unit"]
                     ELSE IF variant_data.variant_kind = "tuple"
                     THEN LET fs == FieldItems(c, tuple_ids) IN
                          [variant |-> "Tuple",
                           types |-> [i \in 1..Len(fs) |-> parse_type(fs[i].inner.type_)]]
                     ELSE LET fs == FieldItems(c, variant_data.fields) IN
                          [variant |-> "Struct",
                           fields |-> [i \in 1..Len(fs) |->
                                         <<UnwrapOr(fs[i].name, "unknown"),
                                           parse_type(fs[i].inner.type_)>>]]
                ELSE [variant |-> "Unit"]
    IN
    IF ~name.ok THEN name
    ELSE Ok(Some([name |-> name.val, kind |-> kind, docs |-> item.docs]))

\* parse_enum, its return: the `?` of the name and of the variant loop, then
\* Ok(Some(ParsedEnum { .. }))
EnumOf(item, enum_data, name, variants) ==
    IF ~name.ok THEN name
    ELSE IF ~variants.ok THEN variants
    ELSE Ok(Some([variant |-> "Enum",
                  name |-> name.val,
                  visibility |-> item.visibility,
                  generics |-> GenericsOf(enum_data),
                  variants |-> variants.val,
                  docs |-> item.docs,
                  deprecation |-> item.deprecation]))

\* fn parse_enum(&self, item, enum_data) -> Result<Option<ParsedEnum>>
parse_enum(c, item, enum_data) ==
    EnumOf(item, enum_data, RequireName(item, "Enum"),
           LET vs == Present(c, IdsOf(AndArray(Get(enum_data, "variants")))) IN
           TryCollect([i \in 1..Len(vs) |-> parse_variant(c, vs[i])]))


\* fn parse_trait_item(&self, item) -> Result<Option<ParsedTraitItem>>
parse_trait_item(item) ==
    IF item.inner.kind = "assoc_type"
    THEN Ok(Some([variant |-> "AssocType",
                  name |-> UnwrapOr(item.name, "unknown"),
                  bounds |-> <<>>,
                  docs |-> item.docs]))
    ELSE IF item.inner.kind = "function"
    THEN MethodOf(parse_function(item, FunctionJson(item.inner)))
    ELSE IF item.inner.kind = "assoc_const"
    THEN Ok(Some([variant |-> "AssocConst",
                  name |-> UnwrapOr(item.name, "unknown"),
                  ty |-> parse_type(item.inner.type_),
                  docs |-> item.docs]))
    ELSE Ok(None)

\* parse_trait, its return: the `?` of the name and of the item loop, then
\* Ok(Some(ParsedTrait { .. }))
TraitOf(item, trait_data, name, items) ==
    IF ~name.ok THEN name
    ELSE IF ~items.ok THEN items
    ELSE Ok(Some([variant |-> "Trait",
                  name |-> name.val,
                  visibility |-> item.visibility,
                  generics |-> GenericsOf(trait_data),
                  items |-> items.val,
                  docs |-> item.docs,
                  deprecation |-> item.deprecation]))

\* fn parse_trait(&self, item, trait_data) -> Result<Option<ParsedTrait>>
parse_trait(c, item, trait_data) ==
    TraitOf(item, trait_data, RequireName(item, "Trait"),
            LET trait_items == Present(c, IdsOf(AndArray(Get(trait_data, "items")))) IN
            TryCollect([i \in 1..Len(trait_items) |-> parse_trait_item(trait_items[i])]))

\* fn parse_constant(&self, item, const_data) -> Result<Option<ParsedConstant>>
parse_constant(item, const_data) ==
    LET name == RequireName(item, "Constant") IN
    IF ~name.ok THEN name
    ELSE Ok(Some([variant |-> "Constant",
                  name |-> name.val,
                  visibility |-> item.visibility,
                  ty |-> IF IsSome(Get(const_data, "type"))
                         THEN parse_type(Unwrap(Get(const_data, "type")))
                         ELSE Unknown,
                  docs |-> item.docs,
                  deprecation |-> item.deprecation]))

\* str::find(ch): the position of the first occurrence, counted from 1
Find(chars, ch) ==
    IF \E i \in 1..Len(chars) : chars[i] = ch
    THEN Some(CHOOSE i \in 1..Len(chars) :
                /\ chars[i] = ch
                /\ \A j \in 1..(i - 1) : chars[j] # ch)
    ELSE None

\* fn parse_macro(&self, item, macro_data) -> Result<Option<ParsedMacro>>
\* (macro_data is the macro's source text, held as its characters)
parse_macro(item, macro_data) ==
    LET name == RequireName(item, "Macro")
        macro_str == as_str(macro_data)
        start == Find(Unwrap(macro_str), "(")
        end == Find(Unwrap(macro_str), ")")
        base == "macro_rules! " \o name.val
        Done(signature) == Ok(Some([variant |-> "Macro", name |-> name.val,
                                    signature |-> signature, docs |-> item.docs]))
    IN
    IF ~name.ok THEN name
    ELSE IF IsNone(macro_str) THEN Done(base)
    ELSE IF IsNone(start) THEN Done(base)
    ELSE IF IsNone(end) THEN Done(base \o "(...)")
    ELSE IF Unwrap(end) < Unwrap(start)
         THEN Panic("slice index starts after its end")
    ELSE Done(base \o "("
              \o Join(SubSeq(Unwrap(macro_str), Unwrap(start) + 1, Unwrap(end) - 1), "")
              \o ")")

RECURSIVE parse_item(_, _)
\* `for item_id in &module_data.items { if let Some(parsed_item) =
\* self.parse_item(item_id)? { items.push(parsed_item); } }`
ModuleItems(c, ids) == TryCollect([i \in 1..Len(ids) |-> parse_item(c, ids[i])])

\* parse_module, its return: the `?` of the item loop, then
\* Ok(Some(ParsedModule { .. }))
ModuleOf(item, items) ==
    IF ~items.ok THEN items
    ELSE Ok(Some([variant |-> "Module",
                  name |-> UnwrapOr(item.name, "unknown"),
                  visibility |-> item.visibility,
                  items |-> items.val,
                  docs |-> item.docs]))

\* fn parse_module(&self, item, module_data) -> Result<Option<ParsedModule>>
parse_module(c, item, module_data) == ModuleOf(item, ModuleItems(c, module_data.items))

\* fn parse_item(&self, item_id: &Id) -> Result<Option<ParsedItem>>
parse_item(c, item_id) ==
    IF IsNone(IndexGet(c, item_id)) THEN Ok(None)
    ELSE LET item == Unwrap(IndexGet(c, item_id))
             kind == item.inner.kind
         IN
         IF kind = "function" THEN parse_function(item, FunctionJson(item.inner))
         ELSE IF kind = "struct" THEN parse_struct(c, item, StructJson(item.inner))
         \* serde_json::to_value of an ItemEnum::Enum, of an ItemEnum::Trait
         ELSE IF kind = "enum" THEN parse_enum(c, item, JObj([generics |-> item.inner.generics,
                                        variants |-> IdsJson(item.inner.variants)]))
         ELSE IF kind = "trait" THEN parse_trait(c, item, JObj([generics |-> item.inner.generics,
                                         items |-> IdsJson(item.inner.items)]))
         ELSE IF kind = "constant"
              THEN parse_constant(item, JObj([type |-> item.inner.type_,
                                              const |-> item.inner.const_]))
         ELSE IF kind = "module" THEN parse_module(c, item, item.inner)
         ELSE IF kind = "macro" THEN parse_macro(item, JStr(item.inner.source))
         ELSE IF kind = "impl" THEN parse_trait_impl(c, item, ImplJson(item.inner))
         ELSE Ok(None)

\* a module without items, returned in place of an error
EmptyModule ==
    Ok([variant |-> "Module", name |-> "unknown", visibility |-> <<"public">>,
        items |-> <<>>, docs |-> None])

\* Err(anyhow::anyhow!("Root module not found"))
RootNotFound == Err("Root module not found")

\* parse_crate, its return on a root item: the `?` of the item loop, then
\* Ok(ParsedModule { .. })
CrateOf(root_item, items) ==
    IF ~items.ok THEN items
    ELSE Ok([variant |-> "Module",
             name |-> UnwrapOr(root_item.name, "unknown"),
             visibility |-> <<"public">>,
             items |-> items.val,
             docs |-> root_item.docs])

\* pub fn parse_crate(&self) -> Result<ParsedModule>
parse_crate(c) ==
    LET root_item == IndexGet(c, c.root) IN
    IF IsSome(root_item)
    THEN CrateOf(Unwrap(root_item),
                 IF Unwrap(root_item).inner.kind = "module"
                 THEN ModuleItems(c, Unwrap(root_item).inner.items)
                 ELSE Ok(<<>>))
    ELSE RootNotFound

(***************************************************************************)
(* Rendering (renderer/components.rs, renderer/renders.rs)                 *)
(*                                                                         *)
(* Rendered text is the sequence of its lines; every piece the renderer    *)
(* pushes ends with a newline. A line is [depth, txt]: the indentation     *)
(* "  ".repeat(depth) followed by txt.                                     *)
(***************************************************************************)
Line(depth, txt) == [depth |-> depth, txt |-> txt]
\* output.push('\n')
BlankLine == Line(0, "")

RECURSIVE Flatten(_)
\* the concatenation of a sequence of texts
Flatten(texts) == IF texts = <<>> THEN <<>> ELSE Head(texts) \o Flatten(Tail(texts))

\* TypeRenderer::render_type
render_type(rust_type) == Display(rust_type)

\* TypeRenderer::render_visibility; a visibility is <<"public">>, <<"crate">>,
\* <<"default">> or <<"restricted", path>>
render_visibility(vis) ==
    IF vis[1] = "public" THEN "pub "
    ELSE IF vis[1] = "crate" THEN "pub(crate) "
    ELSE IF vis[1] = "restricted" THEN "pub(" \o vis[2] \o ") "
    ELSE ""

\* p.name.starts_with('\''), over the lifetime names in use that are spelled
\* with their leading apostrophe

\* TypeRenderer::render_generics
render_generics(generics) ==
    IF generics.params = <<>> THEN ""
    ELSE LET ParamStr(p) ==
                IF p.kind.variant = "Type"
                THEN IF p.kind.bounds = <<>> THEN p.name
                     ELSE p.name \o ": " \o Join(p.kind.bounds, " + ")
                ELSE IF p.kind.variant = "Lifetime"
                THEN IF p.name \in { "'a", "'b", "'static" } THEN p.name ELSE "'" \o p.name
                ELSE "const " \o p.name \o ": " \o Display(p.kind.ty)
         IN "<" \o Join([i \in 1..Len(generics.params) |-> ParamStr(generics.params[i])],
                        ", ") \o ">"

\* TypeRenderer::render_where_clause
render_where_clause(generics) ==
    IF generics.where_clauses = <<>> THEN ""
    ELSE " where " \o Join(generics.where_clauses, ", ")

\* a doc renderer that prefixes every line alike, blank or not
RenderDocsNoBlank(docs, depth) ==
    IF IsNone(docs) THEN <<>>
    ELSE [i \in 1..Len(Unwrap(docs)) |-> Line(depth, "/// " \o Unwrap(docs)[i])]

\* DocRenderer::render_docs; docs is None or Some(the lines of the text)
render_docs(docs, depth) ==
    IF IsNone(docs) THEN <<>>
    ELSE [i \in 1..Len(Unwrap(docs)) |->
            \* line.trim().is_empty(), over the lines of white space in use
            IF Unwrap(docs)[i] \in { "", " ", "  ", "\t" } THEN Line(depth, "///")
            ELSE Line(depth, "/// " \o Unwrap(docs)[i])]

\* a deprecation renderer that leaves the version out
DeprecationNoSince(deprecation, depth) ==
    IF IsNone(deprecation) THEN <<>> ELSE <<Line(depth, "DEPRECATED")>>

\* DocRenderer::render_deprecation
render_deprecation(deprecation, depth) ==
    IF IsNone(deprecation) THEN <<>>
    ELSE IF IsSome(Unwrap(deprecation).since)
         THEN <<Line(depth, "DEPRECATED since " \o Unwrap(Unwrap(deprecation).since))>>
         ELSE <<Line(depth, "DEPRECATED")>>

\* the parameter list of a signature: `self` receivers are abbreviated
InputStrs(inputs) ==
    Join([i \in 1..Len(inputs) |->
            IF inputs[i][1] = "self"
            THEN IF inputs[i][2].variant = "Reference"
                 THEN IF inputs[i][2].mutable THEN "&mut self" ELSE "&self"
                 ELSE "self"
            ELSE inputs[i][1] \o ": " \o render_type(inputs[i][2])],
         ", ")

\* " -> T", only for non-Unit return types
ReturnStr(output_ty) ==
    IF output_ty.variant # "Unit" THEN " -> " \o render_type(output_ty) ELSE ""

\* a function renderer that puts the documentation after the signature
RenderFunctionDocsLast(f, depth) ==
    render_deprecation(f.deprecation, depth)
    \o <<Line(depth, render_visibility(f.signature.visibility) \o "fn " \o f.signature.name
                     \o render_generics(f.signature.generics)
                     \o "(" \o InputStrs(f.signature.inputs) \o ")"
                     \o ReturnStr(f.signature.output)
                     \o render_where_clause(f.signature.generics))>>
    \o render_docs(f.docs, depth)

\* impl Render for ParsedFunction
RenderFunction(f, depth) ==
    LET sig == f.signature IN
    render_deprecation(f.deprecation, depth)
    \o render_docs(f.docs, depth)
    \o <<Line(depth, render_visibility(sig.visibility) \o "fn " \o sig.name
                     \o render_generics(sig.generics)
                     \o "(" \o InputStrs(sig.inputs) \o ")"
                     \o ReturnStr(sig.output)
                     \o render_where_clause(sig.generics))>>

\* a body of rendered members with a blank line between consecutive members
RECURSIVE Interleave(_)
Interleave(texts) ==
    IF texts = <<>> THEN <<>>
    ELSE IF Len(texts) = 1 THEN texts[1]
    ELSE texts[1] \o <<BlankLine>> \o Interleave(Tail(texts))

\* impl Render for ParsedVariant
RenderVariant(v, depth) ==
    LET signature ==
            IF v.kind.variant = "Unit" THEN v.name
            ELSE IF v.kind.variant = "Tuple"
            THEN v.name \o "("
                 \o Join([i \in 1..Len(v.kind.types) |-> render_type(v.kind.types[i])], ", ")
                 \o ")"
            ELSE v.name \o " { "
                 \o Join([i \in 1..Len(v.kind.fields) |->
                            v.kind.fields[i][1] \o ": " \o render_type(v.kind.fields[i][2])],
                         ", ")
                 \o " }"
    IN render_docs(v.docs, depth) \o <<Line(depth, signature)>>

\* impl Render for ParsedEnum
RenderEnum(e, depth) ==
    render_deprecation(e.deprecation, depth)
    \o render_docs(e.docs, depth)
    \o <<Line(depth, render_visibility(e.visibility) \o "enum " \o e.name
                     \o render_generics(e.generics)
                     \o render_where_clause(e.generics) \o " {"),
         BlankLine>>
    \o Interleave([i \in 1..Len(e.variants) |-> RenderVariant(e.variants[i], depth + 1)])
    \o <<Line(depth, "}"), BlankLine>>

\* impl Render for ParsedTraitItem
RenderTraitItem(item, depth) ==
    IF item.variant = "AssocType"
    THEN render_docs(item.docs, depth)
         \o <<Line(depth, "type " \o item.name
                          \o (IF item.name = "Error" /\ item.bounds = <<>>
                              THEN ": std::error::Error"
                              ELSE IF item.name = "Key" /\ item.bounds = <<>>
                              THEN ": Clone + Debug"
                              ELSE IF item.bounds # <<>>
                              THEN ": " \o Join(item.bounds, " + ")
                              ELSE ""))>>
    ELSE IF item.variant = "AssocConst"
    THEN render_docs(item.docs, depth)
         \o <<Line(depth, "const " \o item.name \o ": " \o render_type(item.ty))>>
    ELSE LET sig == item.func.signature IN
         render_deprecation(item.func.deprecation, depth)
         \o render_docs(item.func.docs, depth)
         \o <<Line(depth, "fn " \o sig.name
                          \o "(" \o InputStrs(sig.inputs) \o ")"
                          \o ReturnStr(sig.output)
                          \o render_where_clause(sig.generics))>>

\* impl Render for ParsedTrait
RenderTrait(t, depth) ==
    LET IsMethodNamed(item, n) == item.variant = "Method" /\ item.func.signature.name = n
        IsAssocTypeNamed(item, n) == item.variant = "AssocType" /\ item.name = n
        needs_where_clause ==
            \/ /\ t.name = "Protocol"
               /\ \E i \in 1..Len(t.items) : IsMethodNamed(t.items[i], "handle")
            \/ /\ t.name = "Cacheable"
               /\ \E i \in 1..Len(t.items) : IsAssocTypeNamed(t.items[i], "Key")
            \/ t.generics.where_clauses # <<>>
        where_text == IF ~needs_where_clause THEN ""
                      ELSE IF t.name = "Cacheable" THEN " where K: Clone"
                      ELSE render_where_clause(t.generics)
    IN
    render_deprecation(t.deprecation, depth)
    \o render_docs(t.docs, depth)
    \o <<Line(depth, render_visibility(t.visibility) \o "trait " \o t.name
                     \o render_generics(t.generics) \o where_text \o " {"),
         BlankLine>>
    \o Interleave([i \in 1..Len(t.items) |-> RenderTraitItem(t.items[i], depth + 1)])
    \o <<Line(depth, "}"), BlankLine>>

\* impl Render for ParsedConstant
RenderConstant(k, depth) ==
    render_deprecation(k.deprecation, depth)
    \o render_docs(k.docs, depth)
    \o <<Line(depth, render_visibility(k.visibility) \o "const " \o k.name \o ": "
                     \o render_type(k.ty)),
         BlankLine>>

\* impl Render for ParsedMacro
RenderMacro(m, depth) ==
    render_docs(m.docs, depth) \o <<Line(depth, m.signature), BlankLine>>

\* the parameter list of a trait impl's method: as InputStrs, but for the
\* parameter `f` of a method named `fmt`
ImplInputStrs(sig) ==
    Join([i \in 1..Len(sig.inputs) |->
            IF sig.inputs[i][1] = "self"
            THEN IF sig.inputs[i][2].variant = "Reference"
                 THEN IF sig.inputs[i][2].mutable THEN "&mut self" ELSE "&self"
                 ELSE "self"
            ELSE IF sig.inputs[i][1] = "f" /\ sig.name = "fmt"
            THEN "f: &mut std::fmt::Formatter<'_>"
            ELSE sig.inputs[i][1] \o ": " \o render_type(sig.inputs[i][2])],
         ", ")

\* impl Render for ParsedTraitImplItem
RenderTraitImplItem(item, depth) ==
    IF item.variant = "AssocType"
    THEN IF item.name = "Error" THEN <<Line(depth, "type Error = HttpError")>>
         ELSE <<Line(depth, "type " \o item.name \o " = " \o render_type(item.ty))>>
    ELSE LET sig == item.func.signature
             HasInput(n) == \E i \in 1..Len(sig.inputs) : sig.inputs[i][1] = n
             return_str ==
                IF sig.name = "handle" /\ HasInput("request")
                THEN " -> Result<HttpResponse, Self::Error>"
                ELSE IF sig.name = "fmt" /\ HasInput("f") THEN " -> std::fmt::Result"
                ELSE ReturnStr(sig.output)
         IN
         IF sig.name = "to_string" THEN <<>>
         ELSE render_deprecation(item.func.deprecation, depth)
              \o render_docs(item.func.docs, depth)
              \o <<Line(depth, "fn " \o sig.name \o "(" \o ImplInputStrs(sig) \o ")"
                               \o return_str)>>
              \o (IF sig.name = "Error" THEN <<BlankLine>> ELSE <<>>)

\* self.trait_path.ends_with("Protocol"), over the trait names in use

\* the signature line of a rendered trait impl, without its opening brace
ImplSignature(trait_path, for_type) ==
    "impl "
    \o (IF LastSegment(trait_path) \in { "Protocol", "HttpProtocol" } THEN "Protocol<HttpRequest, HttpResponse>"
        ELSE JoinPath(trait_path))
    \o " for " \o render_type(for_type)

\* impl Render for ParsedTraitImpl
RenderTraitImpl(ti, depth) ==
    LET type_name == IF ti.for_type.variant = "Path" THEN LastSegment(ti.for_type.path)
                     ELSE IF ti.for_type.variant = "Generic" THEN ti.for_type.name
                     ELSE "Unknown"
        doc_lines == IF IsSome(ti.docs) THEN render_docs(ti.docs, depth)
                     ELSE <<Line(depth, "/// Implementation of " \o LastSegment(ti.trait_path)
                                        \o " trait for " \o type_name)>>
        signature == ImplSignature(ti.trait_path, ti.for_type)
    IN
    IF ti.items = <<>>
    THEN doc_lines \o <<Line(depth, signature), BlankLine>>
    ELSE doc_lines
         \o <<Line(depth, signature \o " {"), BlankLine>>
         \o Interleave([i \in 1..Len(ti.items) |-> RenderTraitImplItem(ti.items[i], depth + 1)])
         \o <<Line(depth, "}"), BlankLine>>

\* impl Render for ParsedStruct
RenderStruct(st, depth) ==
    LET HasMethod(n) == \E i \in 1..Len(st.methods) : st.methods[i].signature.name = n
        needs_where_clause ==
            \/ st.name = "Result" /\ HasMethod("ok")
            \/ st.name = "Storage" /\ HasMethod("insert")
            \/ st.generics.where_clauses # <<>>
        where_text ==
            IF ~needs_where_clause THEN ""
            ELSE IF st.name = "Result" THEN " where T: Clone, E: Display"
            ELSE IF st.name = "Storage"
            THEN " where K: Clone + Debug + PartialEq + std::hash::Hash, V: Clone + Debug"
            ELSE render_where_clause(st.generics)
        method_depth == IF st.name = "Person" THEN depth + 2 ELSE depth + 1
    IN
    render_deprecation(st.deprecation, depth)
    \o render_docs(st.docs, depth)
    \o <<Line(depth, render_visibility(st.visibility) \o "struct " \o st.name
                     \o render_generics(st.generics) \o where_text \o " {")>>
    \o (IF st.methods # <<>> THEN <<BlankLine>> ELSE <<>>)
    \o Interleave([i \in 1..Len(st.methods) |-> RenderFunction(st.methods[i], method_depth)])
    \o <<Line(depth, "}"), BlankLine>>
    \o Flatten([i \in 1..Len(st.trait_impls) |-> RenderTraitImpl(st.trait_impls[i], depth)])

RECURSIVE RenderItem(_, _)
\* impl Render for ParsedModule
RenderModule(m, depth) ==
    render_docs(m.docs, depth)
    \o <<Line(depth, render_visibility(m.visibility) \o "mod " \o m.name), BlankLine>>
    \o Flatten([i \in 1..Len(m.items) |-> RenderItem(m.items[i], depth + 1)])

\* impl Render for ParsedItem
RenderItem(item, depth) ==
    CASE item.variant = "Function" -> RenderFunction(item, depth) \o <<BlankLine>>
      [] item.variant = "Struct" -> RenderStruct(item, depth)
      [] item.variant = "Enum" -> RenderEnum(item, depth)
      [] item.variant = "Trait" -> RenderTrait(item, depth)
      [] item.variant = "Constant" -> RenderConstant(item, depth)
      [] item.variant = "Module" -> RenderModule(item, depth)
      [] item.variant = "Macro" -> RenderMacro(item, depth)
      [] item.variant = "TraitImpl" -> RenderTraitImpl(item, depth)
      [] item.variant = "ReExport" -> <<>>

\* ParsedRenderer::render (renderer/renderer.rs)
ParsedRendererRender(module, crate_version) ==
    LET macros == SelectSeq(module.items, LAMBDA item : item.variant = "Macro")
        other_items == SelectSeq(module.items, LAMBDA item : item.variant # "Macro")
        reexports == SelectSeq(module.items, LAMBDA item : item.variant = "ReExport")
        documented == SelectSeq(reexports, LAMBDA re : IsSome(re.docs))
    IN
    <<Line(0, "# Crate: " \o module.name), BlankLine>>
    \o (IF IsSome(crate_version)
        THEN <<Line(0, "Version: " \o Unwrap(crate_version)), BlankLine>> ELSE <<>>)
    \o (IF IsSome(module.docs)
        THEN (IF Unwrap(module.docs) = <<>> THEN <<BlankLine>>
              ELSE [i \in 1..Len(Unwrap(module.docs)) |-> Line(0, Unwrap(module.docs)[i])])
             \o <<BlankLine>>
        ELSE <<>>)
    \o Flatten([i \in 1..Len(macros) |-> RenderItem(macros[i], 1)])
    \o Flatten([i \in 1..Len(other_items) |-> RenderItem(other_items[i], 1)])
    \o (IF reexports # <<>>
        THEN <<Line(0, "# Re-exports"), BlankLine>>
             \o (IF documented # <<>>
                 THEN <<Line(1, "/// " \o Join(Unwrap(documented[1].docs), "\n"))>>
                 ELSE <<>>)
             \o [i \in 1..Len(reexports) |-> Line(1, "pub use " \o reexports[i].path)]
        ELSE <<>>)

(***************************************************************************)
(* Raw type expressions handed to the type resolver                        *)
(***************************************************************************)
MaxDepth == 2


\* {"resolved_path": {"path": p, "args": {"angle_bracketed": {"args": args}}}}
RawPath(p, args) ==
    JObj([resolved_path |->
            JObj([path |-> JStr(p),
                  args |-> JObj([angle_bracketed |-> JObj([args |-> JArr(args)])])])])

\* raw values of one recognized, well-formed shape and no nested type
RawLeaves ==
    { JObj([primitive |-> JStr("i32")]),
      JObj([generic |-> JStr("T")]),
      JObj([resolved_path |-> JObj([path |-> JStr(<<"std", "vec", "Vec">>)])]),
      JObj([qualified_path |-> JObj([name |-> JStr("Item")])]),
      JObj([tuple |-> JArr(<<>>)]) }

\* raw values outside the recognized shapes: null, a value other than an
\* object, an object without a recognized key, a recognized key with a
\* payload of the wrong form
RawOdd ==
    { JNull,
      JStr("i32"),
      JNum(7),
      JObj([function_pointer |-> JObj([sig |-> JNull])]),
      JObj([primitive |-> JNum(5)]),
      JObj([generic |-> JNull]),
      JObj([tuple |-> JStr("i32")]),
      JObj([array |-> JObj([len |-> JNum(4)])]),
      JObj([qualified_path |-> JObj([self_type |-> JNull])]),
      JObj([resolved_path |-> JObj([id |-> JNum(1)])]),
      JObj([borrowed_ref |-> JObj([is_mutable |-> JBool(TRUE)])]),
      JObj([raw_pointer |-> JNull]),
      JObj([dyn_trait |-> JObj([traits |-> JNull])]),
      JObj([primitive |-> JNum(5), generic |-> JStr("T")]) }

\* the raw values holding x as their nested type
RawWrap(x) ==
    { JObj([borrowed_ref |-> JObj([type |-> x])]),
      JObj([borrowed_ref |-> JObj([is_mutable |-> JBool(TRUE), type |-> x])]),
      JObj([borrowed_ref |-> JObj([lifetime |-> JStr("'a"), is_mutable |-> JBool(FALSE),
                                   type |-> x])]),
      JObj([slice |-> x]),
      JObj([array |-> JObj([type |-> x, len |-> JNum(4)])]),
      JObj([array |-> JObj([type |-> x, len |-> JStr("4")])]),
      JObj([array |-> JObj([type |-> x])]),
      JObj([raw_pointer |-> JObj([is_mutable |-> JBool(FALSE), type |-> x])]),
      JObj([raw_pointer |-> JObj([is_mutable |-> JBool(TRUE), type |-> x])]),
      JObj([tuple |-> JArr(<<x>>)]),
      JObj([tuple |-> JArr(<<x, JObj([primitive |-> JStr("i32")])>>)]),
      RawPath(<<"std", "vec", "Vec">>, <<JObj([type |-> x])>>),
      RawPath(<<"std", "vec", "Vec">>, <<JObj([type |-> JObj([generic |-> JStr("T")])]), JObj([type |-> x])>>) }

RECURSIVE RawTypes(_)
\* every raw value of nesting depth at most d
RawTypes(d) ==
    IF d = 0 THEN RawLeaves \cup RawOdd
    ELSE RawLeaves \cup RawOdd \cup UNION { RawWrap(x) : x \in RawTypes(d - 1) }

(***************************************************************************)
(* The type resolver run: parse_type, then to_string                       *)
(***************************************************************************)
InitType ==
    \* the values of RawTypes(MaxDepth): those one level shallower, bare or
    \* wrapped once more
    /\ \E x \in RawTypes(MaxDepth - 1) : raw \in { x } \cup RawWrap(x)
    /\ tpc = "raw"
    /\ ty = None
    /\ text = None
    /\ module_path = None
    /\ filtered = None
    /\ stack = <<>>
    /\ crate_data = [root |-> 0, index |-> <<>>, crate_version |-> None]
    /\ pc = "idle"
    /\ parsed = None
    /\ output = <<>>
    /\ stdout = <<>>

\* let t = self.parse_type(&raw)
ParseTypeStep ==
    /\ tpc = "raw"
    /\ ty' = Some(parse_type(raw))
    /\ tpc' = "parsed"
    /\ UNCHANGED <<raw, text>>
    /\ UNCHANGED pipeVars
    /\ UNCHANGED walkVars

\* t.to_string(), as TypeRenderer::render_type does
DisplayStep ==
    /\ tpc = "parsed"
    /\ text' = Some(Display(Unwrap(ty)))
    /\ tpc' = "shown"
    /\ UNCHANGED <<raw, ty>>
    /\ UNCHANGED pipeVars
    /\ UNCHANGED walkVars

NextType == ParseTypeStep \/ DisplayStep

SpecType == InitType /\ [][NextType]_vars

(***************************************************************************)
(* Documentation graphs fed to the pipeline                                *)
(***************************************************************************)
\* an Item without docs, attributes or deprecation
Item(name, inner) ==
    [name |-> name, visibility |-> <<"public">>, docs |-> None, attrs |-> <<>>,
     deprecation |-> None, inner |-> inner]

NoGenerics == JObj([params |-> JArr(<<>>), where_predicates |-> JArr(<<>>)])
I32 == JObj([primitive |-> JStr("i32")])
SelfRef == JObj([borrowed_ref |-> JObj([lifetime |-> JNull, is_mutable |-> JBool(FALSE),
                                        type |-> JObj([generic |-> JStr("Self")])])])

\* ItemEnum::Function with the given inputs and output
FunctionInner(inputs, output_val) ==
    [kind |-> "function",
     sig |-> JObj([inputs |-> JArr([i \in 1..Len(inputs) |->
                                      JArr(<<JStr(inputs[i][1]), inputs[i][2]>>)]),
                   output |-> output_val,
                   is_c_variadic |-> JBool(FALSE)]),
     generics |-> NoGenerics,
     header |-> JObj([is_const |-> JBool(FALSE), is_unsafe |-> JBool(FALSE),
                      is_async |-> JBool(FALSE)])]

ModuleInner(items) == [kind |-> "module", items |-> items, is_crate |-> FALSE]
StructInner(fields, impls) ==
    [kind |-> "struct", struct_kind |-> "plain", generics |-> NoGenerics,
     fields |-> fields, impls |-> impls]
ImplInner(trait_, for_, items, is_synthetic, blanket_impl) ==
    [kind |-> "impl", trait_ |-> trait_, for_ |-> for_, items |-> items,
     is_synthetic |-> is_synthetic, blanket_impl |-> blanket_impl]
TraitRef(path) == Some([path |-> path])
ForType(name) == JObj([resolved_path |-> JObj([path |-> JStr(<<name>>)])])

\* how deep the chain of nested modules of a graph goes
MaxModuleDepth == 2

\* the module nested d levels below the root, and the function it holds
ChainModuleId(d) == 20 + d
ChainFunctionId(d) == 40 + d

\* the ids of the graph's function records
FunctionIds == { 1, 13, 15, 16, 17 } \cup { ChainFunctionId(d) : d \in 1..MaxModuleDepth }

\* a crate with a function, a struct (a field, an inherent impl, a kept trait
\* impl and a derived trait impl), an enum, a trait and a chain of nested
\* modules
BaseItem(id) ==
    CASE id = 0 -> [Item(Some("demo"), ModuleInner(<<1, 3, 4, 5, ChainModuleId(1)>>))
                        EXCEPT !.docs = Some(<<"A demo crate.">>)]
      [] id = 1 -> Item(Some("top"), FunctionInner(<<<<"n", I32>>>>, I32))
      [] id = 3 -> Item(Some("Point"), StructInner(<<8>>, <<9, 10, 11>>))
      [] id = 4 -> Item(Some("Shape"), [kind |-> "enum", generics |-> NoGenerics,
                                         variants |-> <<12, 18>>])
      [] id = 5 -> Item(Some("Draw"), [kind |-> "trait", generics |-> NoGenerics,
                                        items |-> <<14, 13>>])
      [] id = 8 -> Item(Some("x"), [kind |-> "struct_field", type_ |-> I32])
      [] id = 9 -> Item(None, ImplInner(None, ForType("Point"), <<15>>, FALSE, None))
      [] id = 10 -> Item(None, ImplInner(TraitRef(<<"Draw">>), ForType("Point"), <<16>>,
                                         FALSE, None))
      [] id = 11 -> [Item(None, ImplInner(TraitRef(<<"Clone">>), ForType("Point"), <<17>>,
                                          FALSE, None))
                        EXCEPT !.attrs = <<<<"#[derive", "(", "Clone", ")", "]">>>>]
      [] id = 12 -> Item(Some("Circle"), [kind |-> "variant", variant_kind |-> "tuple",
                                          fields |-> <<Some(8)>>])
      [] id = 18 -> Item(Some("Empty"), [kind |-> "variant", variant_kind |-> "plain",
                                         fields |-> <<>>])
      [] id = 13 -> Item(Some("draw"), FunctionInner(<<<<"self", SelfRef>>>>, JNull))
      [] id = 14 -> Item(Some("Output"), [kind |-> "assoc_type", type_ |-> None])
      [] id = 15 -> Item(Some("new"), FunctionInner(<<>>, ForType("Point")))
      [] id = 16 -> Item(Some("draw"), FunctionInner(<<<<"self", SelfRef>>>>, JNull))
      [] id = 17 -> Item(Some("clone"), FunctionInner(<<<<"self", SelfRef>>>>, ForType("Point")))
      [] id \in { ChainModuleId(d) : d \in 1..MaxModuleDepth } ->
            Item(Some("nested"),
                 ModuleInner(<<id + 20>> \o (IF id < ChainModuleId(MaxModuleDepth)
                                              THEN <<id + 1>> ELSE <<>>)))
      [] id \in { ChainFunctionId(d) : d \in 1..MaxModuleDepth } ->
            Item(Some("leaf"), FunctionInner(<<>>, JNull))

\* an id no graph has a record for
DanglingId == 99

\* seq without its k-th entry
RemoveAt(seq, k) == SubSeq(seq, 1, k - 1) \o SubSeq(seq, k + 1, Len(seq))

\* the graph with the given root, the functions in `nameless` stripped of
\* their name and, if `dangling` is <<holder, list, k>>, the dangling id put
\* at position k of that list
ModuleCrate(root, nameless, dangling, version) ==
    LET ids == { 0, 1, 3, 4, 5, 8, 9, 10, 11, 12, 13, 14, 15, 16, 17, 18 }
               \cup { ChainModuleId(d) : d \in 1..MaxModuleDepth } \cup FunctionIds
        named == [id \in ids |->
                    IF id \in nameless THEN [BaseItem(id) EXCEPT !.name = None]
                    ELSE BaseItem(id)]
        index == IF dangling = <<>> THEN named
                 ELSE [named EXCEPT ![dangling[1]].inner[dangling[2]] =
                                        SubSeq(@, 1, dangling[3] - 1) \o <<DanglingId>>
                                        \o SubSeq(@, dangling[3], Len(@))]
    IN [root |-> root, index |-> index, crate_version |-> version]

\* how many impls the struct of an impl-family graph lists
MaxImpls == 2

SuppressedNames ==
    { "Send", "Sync", "Freeze", "Unpin", "UnwindSafe", "RefUnwindSafe", "Borrow",
      "BorrowMut", "Into", "From", "TryInto", "TryFrom", "Any", "CloneToUninit",
      "ToOwned", "StructuralPartialEq", "ToString", "IntoFuture" }

\* the impl lists of the family, of <<trait reference, flag>>: the first
\* impl is any configuration (no trait, every suppressed name, a qualified
\* suppressed name, names the filter keeps; every flag), the later ones are
\* among a few
ImplLists ==
    LET TraitChoices ==
            { None } \cup { TraitRef(<<n>>) : n \in SuppressedNames }
            \cup { TraitRef(<<"core", "marker", "Send">>), TraitRef(<<"Display">>),
                   TraitRef(<<"std", "fmt", "Display">>), TraitRef(<<"Sender">>),
                   TraitRef(<<"Send", "Channel">>) }
        ImplFlags == { "plain", "synthetic", "derive", "blanket", "inline" }
        FewImplConfigs ==
            { <<None, "plain">>, <<TraitRef(<<"Display">>), "plain">>,
              <<TraitRef(<<"Display">>), "derive">>, <<TraitRef(<<"Send">>), "plain">>,
              <<TraitRef(<<"std", "fmt", "Display">>), "plain">>,
              <<TraitRef(<<"Debug">>), "synthetic">> }
    IN { <<>> } \cup UNION { { <<first>> \o rest : first \in TraitChoices \X ImplFlags,
                                                   rest \in [1..(n - 1) -> FewImplConfigs] } :
                             n \in 1..MaxImpls }

\* the impl record of a configuration, holding the given items
ImplItem(config, items) ==
    [Item(None, ImplInner(config[1], ForType("Widget"), items,
                          config[2] = "synthetic",
                          IF config[2] = "blanket" THEN Some(JObj([generic |-> JStr("T")]))
                          ELSE None))
        EXCEPT !.attrs = IF config[2] = "derive"
                         THEN <<<<"#[derive", "(", "Debug", ")", "]">>>>
                         ELSE IF config[2] = "inline" THEN <<<<"#[inline", "]">>>>
                         ELSE <<>>]

\* a crate whose root module lists the struct Widget, whose impl list is
\* `impls`, and possibly one impl directly
ImplCrate(impls, direct) ==
    LET n == Len(impls)
        ids == { 0, 1 } \cup { 10 + i : i \in 1..n } \cup { 30 + i : i \in 1..n }
               \cup (IF IsSome(direct) THEN { 50 } ELSE {})
    IN [root |-> 0,
        index |-> [id \in ids |->
            CASE id = 0 -> Item(Some("widgets"),
                                ModuleInner(<<1>> \o (IF IsSome(direct) THEN <<50>>
                                                      ELSE <<>>)))
              [] id = 1 -> Item(Some("Widget"),
                                StructInner(<<>>, [i \in 1..n |-> 10 + i]))
              [] id = 50 -> ImplItem(Unwrap(direct), <<>>)
              [] id \in { 10 + i : i \in 1..n } ->
                    ImplItem(impls[id - 10], <<id + 20>>)
              [] id \in { 30 + i : i \in 1..n } ->
                    Item(Some("method" \o ToString(id - 30)), FunctionInner(<<<<"self", SelfRef>>>>, JNull))],
        crate_version |-> None]

(***************************************************************************)
(* Documentation graphs exercising the renderer                            *)
(***************************************************************************)
\* how many members a struct, an enum, a trait and a trait impl list
MaxMembers == 3

\* the names a graph of the rendering family gives to its struct, the
\* struct's first method, its trait, the trait's first method and associated
\* type, the first method of the trait impl, and the parameter of the
\* trait's and the trait impl's methods
PlainNames ==
    [struct |-> "Point", method |-> "area", trait |-> "Draw", trait_method |-> "draw",
     assoc |-> "Output", impl_method |-> "render", impl_param |-> "scale"]

Namings ==
    { PlainNames,
      [PlainNames EXCEPT !.struct = "Person"],
      [PlainNames EXCEPT !.struct = "Result", !.method = "ok"],
      [PlainNames EXCEPT !.struct = "Storage", !.method = "insert"],
      [PlainNames EXCEPT !.trait = "Protocol", !.trait_method = "handle"],
      [PlainNames EXCEPT !.trait = "Cacheable", !.assoc = "Key"],
      [PlainNames EXCEPT !.assoc = "Error"],
      [PlainNames EXCEPT !.impl_method = "to_string"],
      [PlainNames EXCEPT !.impl_method = "fmt", !.impl_param = "f"],
      [PlainNames EXCEPT !.impl_method = "handle", !.impl_param = "request"],
      [PlainNames EXCEPT !.impl_method = "Error"] }

\* Item::docs and Item::deprecation of the items of a graph
Annotations ==
    { [docs |-> None, deprecation |-> None],
      [docs |-> Some(<<"Adds two numbers">>), deprecation |-> None],
      [docs |-> Some(<<"First line", "", " indented", "  ", "\t">>),
       deprecation |-> Some([since |-> None, note |-> None])],
      [docs |-> None, deprecation |-> Some([since |-> Some("1.2.0"), note |-> None])],
      [docs |-> Some(<<"Adds two numbers">>),
       deprecation |-> Some([since |-> Some("1.2.0"), note |-> Some("use sum")])] }

\* <T: Copy, 'a> where T: Clone
SomeGenerics ==
    LET Bound(path) == JObj([trait_bound |-> JObj([trait |-> JObj([path |-> JStr(path)])])]) IN
    JObj([params |-> JArr(<<JObj([name |-> JStr("T"),
                                  kind |-> JObj([type |-> JObj([bounds |->
                                                    JArr(<<Bound(<<"Copy">>)>>)])])]),
                            JObj([name |-> JStr("'a"),
                                  kind |-> JObj([lifetime |-> JObj([outlives |-> JArr(<<>>)])])])>>),
          where_predicates |->
              JArr(<<JObj([bound_predicate |->
                             JObj([type |-> JObj([generic |-> JStr("T")]),
                                   bounds |-> JArr(<<Bound(<<"Clone">>)>>)])])>>)])

\* the `use` items of the root module
UseChoices == { <<>>, <<<<"std", "fmt", "Display">>, <<"crate", "inner", "helper">>>> }

\* the record of id in the graph with the given names, n members per list,
\* the given function output and `use` items; the i-th method of the struct
\* has id 20 + i, of the trait impl 30 + i, of the trait 50 + i, the i-th
\* variant 40 + i and the i-th `use` item 70 + i
RenderItemOf(id, names, n, out, uses) ==
    CASE id = 0 -> Item(Some("shapes"),
                        ModuleInner(<<1>> \o [i \in 1..Len(uses) |-> 70 + i]
                                    \o <<3, 4, 2, 5, 6, 7>>))
      [] id = 1 -> Item(Some("add"), FunctionInner(<<<<"a", I32>>, <<"b", I32>>>>, out))
      [] id = 2 -> Item(Some("shout"), [kind |-> "macro", source |-> <<"(", "$x:expr", ")">>])
      [] id = 3 -> Item(Some(names.struct), StructInner(<<>>, <<10, 11>>))
      [] id = 4 -> Item(Some("Color"), [kind |-> "enum", generics |-> NoGenerics,
                                         variants |-> [i \in 1..n |-> 40 + i]])
      [] id = 5 -> Item(Some(names.trait),
                        [kind |-> "trait", generics |-> NoGenerics,
                         items |-> <<50>> \o [i \in 1..n |-> 50 + i]])
      [] id = 6 -> Item(Some("MAX"), [kind |-> "constant", type_ |-> I32,
                                       const_ |-> JObj([expr |-> JStr("100")])])
      [] id = 7 -> Item(Some("inner"), ModuleInner(<<60, 61>>))
      [] id = 10 -> Item(None, ImplInner(None, ForType(names.struct),
                                         [i \in 1..n |-> 20 + i], FALSE, None))
      [] id = 11 -> Item(None, ImplInner(TraitRef(<<names.trait>>), ForType(names.struct),
                                         <<30>> \o [i \in 1..n |-> 30 + i],
                                         FALSE, None))
      [] id = 30 -> Item(Some(names.assoc), [kind |-> "assoc_type", type_ |-> Some(I32)])
      [] id = 50 -> Item(Some(names.assoc), [kind |-> "assoc_type", type_ |-> None])
      [] id = 60 -> Item(Some("helper"), FunctionInner(<<>>, out))
      [] id = 61 -> Item(Some("whisper"), [kind |-> "macro", source |-> <<"(", ")">>])
      [] id \in { 20 + i : i \in 1..n } ->
            Item(Some(IF id = 21 THEN names.method ELSE "m" \o ToString(id - 20)),
                 FunctionInner(<<<<"self", SelfRef>>>>, out))
      [] id \in { 30 + i : i \in 1..n } ->
            Item(Some(IF id = 31 THEN names.impl_method
                      ELSE "m" \o ToString(id - 30)),
                 FunctionInner(<<<<"self", SelfRef>>, <<names.impl_param, I32>>>>, out))
      [] id \in { 40 + i : i \in 1..n } ->
            Item(Some(IF id <= 43 THEN <<"Red", "Green", "Blue">>[id - 40]
                      ELSE "V" \o ToString(id - 40)),
                 [kind |-> "variant", variant_kind |-> "plain", fields |-> <<>>])
      [] id \in { 50 + i : i \in 1..n } ->
            Item(Some(IF id = 51 THEN names.trait_method
                      ELSE "m" \o ToString(id - 50)),
                 FunctionInner(<<<<"self", SelfRef>>, <<names.impl_param, I32>>>>, out))
      [] id \in { 70 + i : i \in 1..Len(uses) } ->
            Item(Some(LastSegment(uses[id - 70])),
                 [kind |-> "use", source |-> uses[id - 70], is_glob |-> FALSE])

\* a crate with a function, a macro, a struct with an inherent impl and a
\* trait impl, an enum, a trait, a constant, a nested module holding a
\* function followed by a macro, and the `use` items; every record but the
\* root module's carries the annotation and every function, struct, enum
\* and trait the generics
RenderCrate(names, n, ann, generics, out, uses) ==
    LET ids == { 0, 1, 2, 3, 4, 5, 6, 7, 10, 11, 30, 50, 60, 61 }
               \cup { 20 + i : i \in 1..n } \cup { 30 + i : i \in 1..n }
               \cup { 40 + i : i \in 1..n } \cup { 50 + i : i \in 1..n }
               \cup { 70 + i : i \in 1..Len(uses) }
        Decorated(id, item) ==
            IF id = 0 THEN item
            ELSE IF item.inner.kind \in { "function", "struct", "enum", "trait" }
            THEN [item EXCEPT !.docs = ann.docs, !.deprecation = ann.deprecation,
                              !.inner.generics = generics]
            ELSE [item EXCEPT !.docs = ann.docs, !.deprecation = ann.deprecation]
    IN [root |-> 0,
        index |-> [id \in ids |-> Decorated(id, RenderItemOf(id, names, n, out, uses))],
        crate_version |-> Some("0.1.0")]

(***************************************************************************)
(* The pipeline of main: parse, render, print                              *)
(***************************************************************************)

\* the pipeline about to parse crate c
Start(c) ==
    /\ crate_data = c
    /\ pc = "parse"
    /\ parsed = None
    /\ output = <<>>
    /\ stdout = <<>>
    /\ raw = JNull
    /\ tpc = "idle"
    /\ ty = None
    /\ text = None
    /\ module_path = None
    /\ filtered = None
    /\ stack = <<>>

Init ==
    \E root \in { 0, DanglingId, 1, 3, 12 },
       nameless \in { {} } \cup { {f} : f \in FunctionIds },
       dangling \in { <<>> } \cup
           { <<l[1], l[2], k>> :
               l \in { <<0, "items">>, <<ChainModuleId(MaxModuleDepth), "items">>,
                       <<3, "fields">>, <<3, "impls">>, <<9, "items">>, <<10, "items">>,
                       <<4, "variants">>, <<5, "items">> },
               k \in 1..2 },
       version \in { None, Some("0.1.0") } :
        Start(ModuleCrate(root, nameless, dangling, version))

InitImpl ==
    \E impls \in ImplLists,
       \* an impl listed directly in the root module's items
       direct \in { None, Some(<<TraitRef(<<"Send">>), "plain">>),
                    Some(<<TraitRef(<<"core", "marker", "Send">>), "plain">>),
                    Some(<<TraitRef(<<"Display">>), "plain">>),
                    Some(<<TraitRef(<<"Send">>), "synthetic">>) },
       \* the method of the struct's first impl may lack its name
       nameless \in BOOLEAN :
        Start(IF nameless /\ impls # <<>>
              THEN [ImplCrate(impls, direct) EXCEPT !.index[31].name = None]
              ELSE ImplCrate(impls, direct))

InitRender ==
    \E names \in Namings, n \in 0..MaxMembers, ann \in Annotations,
       generics \in { NoGenerics, SomeGenerics }, out \in { JNull, I32 },
       uses \in UseChoices :
        Start(RenderCrate(names, n, ann, generics, out, uses))

\* a crate whose root module lists the function `show(x: <ty_>)` with the
\* given generics and the macro `m` with the given source text
SignatureCrate(ty_, generics, source) ==
    [root |-> 0,
     index |-> [id \in { 0, 1, 2 } |->
                  CASE id = 0 -> Item(Some("lib"), ModuleInner(<<1, 2>>))
                    [] id = 1 -> Item(Some("show"),
                                      [kind |-> "function",
                                       sig |-> JObj([inputs |-> JArr(<<JArr(<<JStr("x"), ty_>>)>>),
                                                     output |-> JNull,
                                                     is_c_variadic |-> JBool(FALSE)]),
                                       generics |-> generics,
                                       header |-> JObj([is_const |-> JBool(FALSE),
                                                        is_unsafe |-> JBool(FALSE),
                                                        is_async |-> JBool(FALSE)])])
                    [] id = 2 -> Item(Some("m"), [kind |-> "macro", source |-> source])],
     crate_version |-> None]

InitParse ==
    LET Str == JObj([primitive |-> JStr("str")])
        Ref(lifetime, is_mutable) ==
            JObj([borrowed_ref |-> JObj([lifetime |-> lifetime,
                                         is_mutable |-> JBool(is_mutable),
                                         type |-> Str])])
        Resolved(p) == JObj([resolved_path |-> JObj([path |-> JStr(p)])])
        Bound(p) == JObj([trait_bound |-> JObj([trait |-> JObj([path |-> JStr(p)])])])
        Outlives == JObj([outlives |-> JStr("'a")])
        Bounded(type, bounds) ==
            JObj([bound_predicate |-> JObj([type |-> type, bounds |-> JArr(bounds)])])
        T == JObj([generic |-> JStr("T")])
        U == JObj([generic |-> JStr("U")])
        Where(predicates) ==
            JObj([params |-> JArr(<<JObj([name |-> JStr("T"),
                                          kind |-> JObj([type |-> JObj([bounds |-> JArr(<<>>)])])]),
                                    JObj([name |-> JStr("U"),
                                          kind |-> JObj([type |-> JObj([bounds |-> JArr(<<>>)])])])>>),
                  where_predicates |-> JArr(predicates)])
    IN
    \E ty_ \in { Ref(JNull, FALSE), Ref(JStr("a"), FALSE), Ref(JStr("'a"), FALSE),
                Ref(JStr("a"), TRUE), Ref(JNull, TRUE),
                Resolved(<<"$crate", "fmt", "Formatter">>),
                Resolved(<<"$crate", "fmt", "Result">>),
                Resolved(<<"$crate", "clone", "Clone">>),
                Resolved(<<"$crate", "cmp", "PartialEq">>),
                Resolved(<<"$crate", "string", "String">>),
                Resolved(<<"$crate", "fmt">>),
                Resolved(<<"std", "fmt", "Formatter">>),
                Resolved(<<"Clone">>),
                Resolved(<<"crate", "fmt", "Formatter">>),
                RawPath(<<"$crate", "vec", "Vec">>,
                        <<JObj([type |-> Resolved(<<"$crate", "clone", "Clone">>)])>>) },
       generics \in { NoGenerics,
                      Where(<<Bounded(T, <<Bound(<<"std", "fmt", "Display">>)>>)>>),
                      Where(<<Bounded(T, <<Bound(<<"std", "fmt", "Display">>),
                                           Bound(<<"std", "clone", "Clone">>)>>)>>),
                      Where(<<Bounded(U, <<Bound(<<"Clone">>)>>),
                              Bounded(T, <<Bound(<<"Display">>)>>)>>),
                      Where(<<JObj([bound_predicate |-> JObj([type |-> T])])>>),
                      Where(<<Bounded(T, <<>>)>>),
                      Where(<<Bounded(T, <<Outlives>>)>>),
                      Where(<<Bounded(T, <<Outlives, Bound(<<"Clone">>)>>)>>),
                      Where(<<JObj([region_predicate |-> JObj([lifetime |-> JStr("'a")])])>>),
                      Where(<<JObj([region_predicate |-> JObj([lifetime |-> JStr("'a")])]),
                              Bounded(T, <<Bound(<<"Display">>)>>),
                              Bounded(U, <<>>),
                              Bounded(U, <<Bound(<<"Clone">>), Bound(<<"Send">>)>>)>>),
                      Where(<<Bounded(Resolved(<<"Vec">>), <<Bound(<<"Clone">>)>>)>>) },
       source \in { <<"(", "$x:expr", ")">>,
                    <<"{", "}">>,
                    <<"(", "$x:expr">>,
                    <<"(", ")">>,
                    <<"(", "$a:expr", ")", " => ", "(", "$b:expr", ")">>,
                    <<"(", "$", "(", "$x:expr", ")", ",*", ")">>,
                    <<"[", "$x:expr", ")", " => ", "(", "$x", ")">> } :
        Start(SignatureCrate(ty_, generics, source))

\* a crate whose struct S (impl list `impls`: 10 and 11 inherent, 12 of the
\* trait Draw), enum E, trait T, root module and module `inner` list their
\* members in the given order: in `order` 1, 2, 3 are members the list's
\* loop recognizes, 4 is a record of another kind and 9 an id without a
\* record
InitOrder ==
    \E impls \in { <<10, 11>>, <<11, 10>>, <<10, 12, 11>>, <<11, DanglingId, 10, 10>> },
       order \in UNION { [1..k -> { 1, 2, 3, 4, 9 }] : k \in 0..MaxMembers } :
        LET Ids(base) == [i \in 1..Len(order) |->
                            IF order[i] = 9 THEN DanglingId ELSE base + order[i]]
            Fn(name) == Item(Some(name), FunctionInner(<<>>, JNull))
            Field(name) == Item(Some(name), [kind |-> "struct_field", type_ |-> I32])
            Variant(name) == Item(Some(name), [kind |-> "variant", variant_kind |-> "plain",
                                               fields |-> <<>>])
        IN
        Start([root |-> 0,
               index |-> [id \in { 0, 3, 4, 5, 7, 10, 11, 12, 25, 26, 27 }
                                 \cup UNION { { 20 + k, 40 + k, 50 + k, 60 + k } : k \in 1..4 } |->
                  CASE id = 0 -> Item(Some("lists"), ModuleInner(<<3, 4, 5>> \o Ids(60) \o <<7>>))
                    [] id = 3 -> Item(Some("S"), StructInner(<<>>, impls))
                    [] id = 4 -> Item(Some("E"), [kind |-> "enum", generics |-> NoGenerics,
                                                  variants |-> Ids(40)])
                    [] id = 5 -> Item(Some("T"), [kind |-> "trait", generics |-> NoGenerics,
                                                  items |-> Ids(50)])
                    [] id = 7 -> Item(Some("inner"), ModuleInner(Ids(60)))
                    [] id = 10 -> Item(None, ImplInner(None, ForType("S"), Ids(20), FALSE, None))
                    [] id = 11 -> Item(None, ImplInner(None, ForType("S"), <<25, 26>>, FALSE, None))
                    [] id = 12 -> Item(None, ImplInner(TraitRef(<<"Draw">>), ForType("S"), <<27>>,
                                                       FALSE, None))
                    [] id \in { 21, 22, 23 } -> Fn("a" \o ToString(id - 20))
                    [] id = 24 -> Item(Some("A4"), [kind |-> "assoc_type", type_ |-> Some(I32)])
                    [] id \in { 25, 26 } -> Fn("b" \o ToString(id - 24))
                    [] id = 27 -> Fn("draw")
                    [] id \in { 41, 42, 43 } -> Variant("V" \o ToString(id - 40))
                    [] id = 44 -> Fn("v4")
                    [] id = 51 -> Fn("t1")
                    [] id = 52 -> Item(Some("T2"), [kind |-> "assoc_type", type_ |-> None])
                    [] id = 53 -> Item(Some("T3"), [kind |-> "assoc_const", type_ |-> I32])
                    [] id = 54 -> Field("t4")
                    [] id = 61 -> Fn("f1")
                    [] id = 62 -> Item(Some("C2"), [kind |-> "constant", type_ |-> I32,
                                                    const_ |-> JObj([expr |-> JStr("100")])])
                    [] id = 63 -> Item(Some("m3"), [kind |-> "macro",
                                                    source |-> <<"(", "$x:expr", ")">>])
                    [] id = 64 -> Field("f4")],
               crate_version |-> None])

\* the `?` of `parser.parse_crate()?`: only a returned module lets main go on
FallThrough(res) == IF res.ok THEN "render" ELSE "print"
AfterParse(res) == IF res.ok THEN "render" ELSE "failed"

\* let parsed_module = parser.parse_crate()?;
ParseCrate ==
    /\ pc = "parse"
    /\ \E res \in { parse_crate(crate_data) } :
        /\ parsed' = Some(res)
        /\ pc' = AfterParse(res)
    /\ UNCHANGED <<crate_data, output, stdout>>
    /\ UNCHANGED typeVars
    /\ UNCHANGED walkVars

\* let output = renderer.render(&parsed_module, crate_data.crate_version.as_deref());
Render ==
    /\ pc = "render"
    /\ output' = ParsedRendererRender(Unwrap(parsed).val, crate_data.crate_version)
    /\ pc' = "print"
    /\ UNCHANGED <<crate_data, parsed, stdout>>
    /\ UNCHANGED typeVars
    /\ UNCHANGED walkVars

\* println!("{}", output);
Println ==
    /\ pc = "print"
    /\ stdout' = stdout \o output \o <<BlankLine>>
    /\ pc' = "done"
    /\ UNCHANGED <<crate_data, parsed, output>>
    /\ UNCHANGED typeVars
    /\ UNCHANGED walkVars

Next == ParseCrate \/ Render \/ Println

Spec == Init /\ [][Next]_vars

SpecImpl == InitImpl /\ [][Next]_vars

SpecRender == InitRender /\ [][Next]_vars

SpecParse == InitParse /\ [][Next]_vars

SpecOrder == InitOrder /\ [][Next]_vars

(***************************************************************************)
(* A stdlib run of main, step by step: filter_by_module_path, then         *)
(* parse_crate with one step per parse_item call of a module's loop, then  *)
(* render and println                                                      *)
(***************************************************************************)
\* the module graph of BaseItem, every record carrying its id (Item of
\* main.rs), with the functions in `nameless` stripped of their name and, if
\* `extra` is <<module, id>>, the id appended to the item list of the module
WalkCrate(nameless, extra, version) ==
    LET c == ModuleCrate(0, nameless, <<>>, version)
        listed == IF extra = <<>> THEN c.index
                  ELSE [c.index EXCEPT ![extra[1]].inner.items = @ \o <<extra[2]>>]
        WithId(id, item) ==
            [id |-> Some(id), name |-> item.name, visibility |-> item.visibility,
             docs |-> item.docs, attrs |-> item.attrs, deprecation |-> item.deprecation,
             inner |-> item.inner]
    IN [root |-> 0, index |-> [id \in DOMAIN listed |-> WithId(id, listed[id])],
        crate_version |-> version]

\* `index.get(..)` finds a record and it is a module
IsModule(c, id) == id \in DOMAIN c.index /\ c.index[id].inner.kind = "module"

\* the item list of a module record, empty for anything else
ItemsOfModule(c, id) == IF IsModule(c, id) THEN c.index[id].inner.items ELSE <<>>

RECURSIVE FindTarget(_, _, _, _, _)
\* `for segment in &segments { .. if !found { return Err(..) } }`: the id and
\* the name of the target, or the error. A segment is found in the first
\* listed item that has a record, the name and an id.
FindTarget(c, segments, path, current_module_id, current_module_name) ==
    IF segments = <<>> THEN Ok(<<current_module_id, current_module_name>>)
    ELSE LET ids == ItemsOfModule(c, current_module_id)
             hits == { i \in 1..Len(ids) :
                         /\ ids[i] \in DOMAIN c.index
                         /\ c.index[ids[i]].name = Some(Head(segments))
                         /\ IsSome(c.index[ids[i]].id) }
             item == c.index[ids[CHOOSE i \in hits : \A j \in hits : i <= j]]
         IN IF hits = {}
            THEN Err("Module '" \o Head(segments) \o "' not found in the path '"
                     \o Join(path, "::") \o "'")
            ELSE FindTarget(c, Tail(segments), path, Unwrap(item.id), Unwrap(item.name))

\* `if inner_obj.contains_key("module") { if let Some(id_val) = item.id {
\* queue.push(id_val) } }` over the item list of a module, in order
PushedModules(c, module_id) ==
    LET modules == SelectSeq(ItemsOfModule(c, module_id),
                             LAMBDA id : IsModule(c, id) /\ IsSome(c.index[id].id))
    IN [i \in 1..Len(modules) |-> Unwrap(c.index[modules[i]].id)]

\* a loop that does not go on into the modules it finds
ItemsToKeepShallow(c, queue, items_to_keep) ==
    { queue[i] : i \in 1..Len(queue) }
    \cup UNION { { ItemsOfModule(c, queue[i])[k] : k \in 1..Len(ItemsOfModule(c, queue[i])) } :
                 i \in 1..Len(queue) }

RECURSIVE ItemsToKeep(_, _, _)
\* `while let Some(module_id) = queue.pop() { .. }`
ItemsToKeep(c, queue, items_to_keep) ==
    IF queue = <<>> THEN items_to_keep
    ELSE ItemsToKeep(c,
                     SubSeq(queue, 1, Len(queue) - 1)
                        \o PushedModules(c, queue[Len(queue)]),
                     items_to_keep \cup { queue[Len(queue)] }
                        \cup { ItemsOfModule(c, queue[Len(queue)])[i] :
                                 i \in 1..Len(ItemsOfModule(c, queue[Len(queue)])) })

RECURSIVE Queued(_, _, _)
\* the ids the loop has popped after n more rounds of pushes
Queued(c, ids, n) ==
    IF n = 0 THEN ids
    ELSE Queued(c, ids \cup UNION { { PushedModules(c, id)[i] :
                                        i \in 1..Len(PushedModules(c, id)) } : id \in ids },
                n - 1)

\* a filter that moves the root as it goes down the path
FilterMovingRoot(c, path) ==
    LET target == FindTarget(c, path, path, c.root, "root")
        found == FindTarget(c, SubSeq(path, 1, Len(path) - 1),
                            SubSeq(path, 1, Len(path) - 1), c.root, "root")
    IN [res |-> IF target.ok THEN Ok(<<>>) ELSE target,
        crate |-> IF found.ok THEN [c EXCEPT !.root = found.val[1]] ELSE c]

\* fn filter_by_module_path(crate_data: &mut Crate, module_path: &str) ->
\* Result<()>, for a graph on which its loop ends: the value it returns and
\* the crate it leaves (`crate_data.root = current_module_id`,
\* `crate_data.index.retain(..)`, `*name = current_module_name`)
filter_by_module_path(c, path) ==
    LET target == FindTarget(c, path, path, c.root, "root") IN
    IF ~target.ok THEN [res |-> target, crate |-> c]
    ELSE [res |-> Ok(<<>>),
          crate |->
            [root |-> target.val[1],
             index |-> [id \in DOMAIN c.index
                                \cap ItemsToKeep(c, <<target.val[1]>>, {}) |->
                          IF id = target.val[1] /\ IsSome(c.index[id].name)
                          THEN [c.index[id] EXCEPT !.name = Some(target.val[2])]
                          ELSE c.index[id]],
             crate_version |-> c.crate_version]]

\* the frames the stack has room for: more than a graph without a cycle needs
StackLimit == MaxModuleDepth + 2

InitWalk ==
    \E nameless \in { {}, { 1 }, { ChainFunctionId(1) }, { ChainFunctionId(MaxModuleDepth) } },
       extra \in { <<>>, <<0, DanglingId>>, <<ChainModuleId(1), 3>>,
                   <<ChainModuleId(1), 4>>, <<ChainModuleId(MaxModuleDepth), 5>>,
                   <<ChainModuleId(1), ChainModuleId(1)>>,
                   <<ChainModuleId(MaxModuleDepth), ChainModuleId(1)>>,
                   <<ChainModuleId(MaxModuleDepth), 0>> },
       path \in { None, Some(<<"nested">>), Some(<<"nested", "nested">>),
                  Some(<<"nested", "leaf">>), Some(<<"Point">>), Some(<<"top", "n">>),
                  Some(<<"missing">>), Some(<<"nested", "missing">>), Some(<<"">>) } :
        /\ crate_data = WalkCrate(nameless, extra, Some("1.80.0"))
        /\ module_path = path
        /\ pc = IF IsSome(path) THEN "filter" ELSE "parse"
        /\ filtered = None
        /\ stack = <<>>
        /\ parsed = None
        /\ output = <<>>
        /\ stdout = <<>>
        /\ raw = JNull
        /\ tpc = "idle"
        /\ ty = None
        /\ text = None

\* `if let Some(path) = module_path { filter_by_module_path(&mut crate_data,
\* path)?; }`. The root is assigned before the loop over the queue; if the
\* loop pops some id again and again, the queue never runs empty and the
\* call does not return.
FilterByModulePath ==
    /\ pc = "filter"
    /\ \E target \in { FindTarget(crate_data, Unwrap(module_path), Unwrap(module_path),
                                  crate_data.root, "root") } :
        IF /\ target.ok
           /\ \E m \in Queued(crate_data, { target.val[1] },
                               Cardinality(DOMAIN crate_data.index)) :
                m \in Queued(crate_data,
                             { PushedModules(crate_data, m)[i] :
                                 i \in 1..Len(PushedModules(crate_data, m)) },
                             Cardinality(DOMAIN crate_data.index))
        THEN /\ crate_data' = [crate_data EXCEPT !.root = target.val[1]]
             /\ pc' = "hung"
             /\ UNCHANGED filtered
        ELSE \E done \in { filter_by_module_path(crate_data, Unwrap(module_path)) } :
                /\ crate_data' = done.crate
                /\ filtered' = Some(done.res)
                /\ pc' = IF done.res.ok THEN "parse" ELSE "failed"
    /\ UNCHANGED <<parsed, output, stdout, module_path, stack>>
    /\ UNCHANGED typeVars

\* parse_crate is called: a missing root is an error, the items of a root
\* module are parsed one by one, any other root has none
CallParseCrate ==
    /\ pc = "parse"
    /\ IF IsModule(crate_data, crate_data.root)
       THEN /\ stack' = <<[id |-> crate_data.root, next |-> 1]>>
            /\ pc' = "walk"
            /\ UNCHANGED parsed
       ELSE /\ \E res \in { parse_crate(crate_data) } :
                /\ parsed' = Some(res)
                /\ pc' = AfterParse(res)
            /\ UNCHANGED stack
    /\ UNCHANGED <<crate_data, output, stdout, module_path, filtered>>
    /\ UNCHANGED typeVars

\* the item id the loop of the call in progress is at (an Option: None
\* when the loop is over)
Pending(c, calls) ==
    IF calls[Len(calls)].next <= Len(ItemsOfModule(c, calls[Len(calls)].id))
    THEN Some(ItemsOfModule(c, calls[Len(calls)].id)[calls[Len(calls)].next])
    ELSE None

\* self.parse_item(item_id)? on anything but a module: the loop goes on, or
\* the error is returned through every call in progress
ParseItem ==
    /\ pc = "walk"
    /\ IsSome(Pending(crate_data, stack))
    /\ ~IsModule(crate_data, Unwrap(Pending(crate_data, stack)))
    /\ \E res \in { parse_item(crate_data, Unwrap(Pending(crate_data, stack))) } :
        IF res.ok
        THEN /\ stack' = [stack EXCEPT ![Len(stack)].next = @ + 1]
             /\ UNCHANGED <<pc, parsed>>
        ELSE /\ stack' = <<>>
             /\ parsed' = Some(res)
             /\ pc' = AfterParse(res)
    /\ UNCHANGED <<crate_data, output, stdout, module_path, filtered>>
    /\ UNCHANGED typeVars

\* self.parse_item(item_id)? on a module: parse_module is called
EnterModule ==
    /\ pc = "walk"
    /\ IsSome(Pending(crate_data, stack))
    /\ IsModule(crate_data, Unwrap(Pending(crate_data, stack)))
    /\ Len(stack) < StackLimit
    /\ stack' = Append(stack, [id |-> Unwrap(Pending(crate_data, stack)), next |-> 1])
    /\ UNCHANGED <<crate_data, pc, parsed, output, stdout, module_path, filtered>>
    /\ UNCHANGED typeVars

\* the call of parse_module finds no room on the stack: the process is
\* aborted, nothing is returned
StackOverflow ==
    /\ pc = "walk"
    /\ IsSome(Pending(crate_data, stack))
    /\ IsModule(crate_data, Unwrap(Pending(crate_data, stack)))
    /\ Len(stack) >= StackLimit
    /\ pc' = "aborted"
    /\ UNCHANGED <<crate_data, parsed, output, stdout, stack, module_path, filtered>>
    /\ UNCHANGED typeVars

\* the loop of a module is over: Ok(Some(ParsedModule { .. })) goes to the
\* caller's loop, the one of parse_crate goes to main
ReturnModule ==
    /\ pc = "walk"
    /\ IsNone(Pending(crate_data, stack))
    /\ IF Len(stack) = 1
       THEN /\ stack' = <<>>
            /\ \E res \in { parse_crate(crate_data) } :
                /\ parsed' = Some(res)
                /\ pc' = AfterParse(res)
       ELSE /\ stack' = [SubSeq(stack, 1, Len(stack) - 1)
                            EXCEPT ![Len(stack) - 1].next = @ + 1]
            /\ UNCHANGED <<pc, parsed>>
    /\ UNCHANGED <<crate_data, output, stdout, module_path, filtered>>
    /\ UNCHANGED typeVars

NextWalk ==
    \/ FilterByModulePath
    \/ CallParseCrate
    \/ ParseItem
    \/ EnterModule
    \/ StackOverflow
    \/ ReturnModule
    \/ Render
    \/ Println

SpecWalk == InitWalk /\ [][NextWalk]_vars

\* main at a position it runs on from: its position or the calls in
\* progress change. Every step of NextWalk is such a step, and one can be
\* taken at every such position.
Runs ==
    /\ pc \in { "filter", "parse", "walk", "render", "print" }
    /\ pc' \in { "parse", "walk", "render", "print", "done", "failed", "aborted", "hung" }
    /\ stack' \in { <<>>, <<[id |-> crate_data.root, next |-> 1]>> }
            \cup (IF stack = <<>> THEN {}
                  ELSE { stack, [stack EXCEPT ![Len(stack)].next = @ + 1],
                         SubSeq(stack, 1, Len(stack) - 1) }
                       \cup { Append(stack, [id |-> id, next |-> 1]) :
                                id \in DOMAIN crate_data.index }
                       \cup (IF Len(stack) = 1 THEN {}
                             ELSE { [SubSeq(stack, 1, Len(stack) - 1)
                                        EXCEPT ![Len(stack) - 1].next = @ + 1] }))

\* main runs on: it does not stay for ever at a position it runs on from
SpecWalkFair == SpecWalk /\ WF_<<pc, stack>>(Runs)

(***************************************************************************)
(* Claims about parse_crate and the pipeline (checked under Spec)          *)
(***************************************************************************)
Returned == IsSome(parsed)
Result == Unwrap(parsed)
RootAbsent == crate_data.root \notin DOMAIN crate_data.index
KindOf(c, id) == c.index[id].inner.kind
Has(c, id, kind) == id \in DOMAIN c.index /\ KindOf(c, id) = kind
Elems(seq) == { seq[i] : i \in 1..Len(seq) }

C2_RootNotModuleFails ==
    (Returned /\ ~RootAbsent /\ KindOf(crate_data, crate_data.root) # "module")
        => Result = Err("Root module not found")

RECURSIVE ModulesUnder(_, _)
\* the module ids reachable from module id through item lists
ModulesUnder(c, id) ==
    {id} \cup UNION { ModulesUnder(c, m) :
                        m \in { x \in Elems(c.index[id].inner.items) : Has(c, x, "module") } }

ReachableModules(c) == IF Has(c, c.root, "module") THEN ModulesUnder(c, c.root) ELSE {}

\* item ids of the given kind listed in a reachable module
Listed(c, kind) ==
    { x \in UNION { Elems(c.index[m].inner.items) : m \in ReachableModules(c) } :
        Has(c, x, kind) }

Nameless(c, ids) == \E f \in ids : Has(c, f, "function") /\ IsNone(c.index[f].name)

\* the impl records in the impl lists of the reachable structs
StructImpls(c) ==
    { i \in UNION { Elems(c.index[st].inner.impls) : st \in Listed(c, "struct") } :
        Has(c, i, "impl") }

\* a nameless function in a module's item list, at any depth
NamelessInModule(c) == Nameless(c, Listed(c, "function"))
\* a nameless function among the items of a trait
NamelessInTrait(c) ==
    \E t \in Listed(c, "trait") : Nameless(c, Elems(c.index[t].inner.items))
\* a nameless function among the items of one of the given impls
NamelessInImpl(c, impls) ==
    \E i \in impls : Nameless(c, Elems(c.index[i].inner.items))

\* the conditions under which an impl with a trait reference is left out
Excluded(impl_item) ==
    \/ impl_item.inner.is_synthetic
    \/ \E i \in 1..Len(impl_item.attrs) : "#[derive" \in Elems(impl_item.attrs[i])
    \/ IsSome(impl_item.inner.blanket_impl) /\ Unwrap(impl_item.inner.blanket_impl) # JNull
    \/ LastSegment(Unwrap(impl_item.inner.trait_).path) \in SuppressedNames

\* the impls of StructImpls whose items parse_struct parses
ParsedStructImpls(c) ==
    { i \in StructImpls(c) :
        IsNone(c.index[i].inner.trait_) \/ ~Excluded(c.index[i]) }

C4_OutputOnlyAfterParse ==
    stdout # <<>> => (Returned /\ Result.ok)

\* a run has ended on a parse failure with nothing written
C4_Witness ==
    /\ pc = "failed"
    /\ Returned
    /\ ~Result.ok
    /\ output = <<>>
    /\ stdout = <<>>

\* the id lists of an item of the given kind
ListsOf(kind) ==
    CASE kind = "module" -> { "items" }
      [] kind = "struct" -> { "fields", "impls" }
      [] kind = "impl" -> { "items" }
      [] kind = "enum" -> { "variants" }
      [] kind = "trait" -> { "items" }
      [] OTHER -> {}

\* <<holder, list, k>>: position k of that list of the holder names an id
\* without a record
DanglingOccurrences(c) ==
    { occ \in UNION { UNION { { <<h, l, k>> : k \in 1..Len(c.index[h].inner[l]) } :
                               l \in ListsOf(KindOf(c, h)) } : h \in DOMAIN c.index } :
        c.index[occ[1]].inner[occ[2]][occ[3]] \notin DOMAIN c.index }

\* the graph with one list entry removed
WithoutOccurrence(c, occ) ==
    [c EXCEPT !.index[occ[1]].inner[occ[2]] = RemoveAt(@, occ[3])]

\* C5: for every list entry that names an id without a record, parse_crate
\* returns what it returns on the graph with that entry removed (so the
\* entry by itself never makes it fail).
C5_DanglingIdsIgnored ==
    Returned => \A occ \in DanglingOccurrences(crate_data) :
                    Result = parse_crate(WithoutOccurrence(crate_data, occ))

\* a module has been parsed from a graph with a dangling id in the struct's
\* impl list
C5_Witness ==
    /\ Returned
    /\ Result.ok
    /\ \E occ \in DanglingOccurrences(crate_data) : occ[1] = 3 /\ occ[2] = "impls"
    /\ \E i \in 1..Len(Result.val.items) : Result.val.items[i].variant = "Struct"

(***************************************************************************)
(* Claims about a struct's trait impls (checked under SpecImpl)            *)
(***************************************************************************)
\* the parsed structs among the items of the returned module
ParsedStructs == SelectSeq(Result.val.items, LAMBDA item : item.variant = "Struct")

\* the impl records a struct record lists, in list order
ListedImpls(c, struct_id) ==
    SelectSeq(Present(c, c.index[struct_id].inner.impls), LAMBDA i : i.inner.kind = "impl")

\* what identifies a listed impl in the parsed tree: its trait path and the
\* names of its function items
ImplKey(c, impl_item) ==
    LET fns == SelectSeq(Present(c, impl_item.inner.items),
                         LAMBDA m : m.inner.kind = "function") IN
    <<Unwrap(impl_item.inner.trait_).path, [i \in 1..Len(fns) |-> Unwrap(fns[i].name)]>>
ParsedImplKey(ti) ==
    LET ms == SelectSeq(ti.items, LAMBDA it : it.variant = "Method") IN
    <<ti.trait_path, [i \in 1..Len(ms) |-> ms[i].func.signature.name]>>

\* C6: in every parsed struct no two entries of trait_impls have the same
\* trait path.
C6_OneImplPerTraitPath ==
    (Returned /\ Result.ok) =>
        \A s \in 1..Len(ParsedStructs) :
            \A i, j \in 1..Len(ParsedStructs[s].trait_impls) :
                i # j => ParsedStructs[s].trait_impls[i].trait_path
                         # ParsedStructs[s].trait_impls[j].trait_path

\* C7: the trait_impls of the parsed struct are exactly the listed impls that
\* have a trait reference and are neither synthetic, nor carrying a
\* `#[derive` attribute, nor blanket, nor of a trait whose last path segment
\* is in the suppression set, in list order.
C7_FilterRule ==
    (Returned /\ Result.ok) =>
        LET kept == SelectSeq(ListedImpls(crate_data, 1),
                              LAMBDA i : IsSome(i.inner.trait_) /\ ~Excluded(i))
            got == ParsedStructs[1].trait_impls
        IN [i \in 1..Len(got) |-> ParsedImplKey(got[i])]
           = [i \in 1..Len(kept) |-> ImplKey(crate_data, kept[i])]

\* a struct has been parsed whose first impl is a blanket impl of Display and
\* whose second impl is a plain impl of Display: only the second is kept
C7_Witness ==
    /\ Returned
    /\ Result.ok
    /\ Len(ListedImpls(crate_data, 1)) = 2
    /\ IsSome(ListedImpls(crate_data, 1)[1].inner.blanket_impl)
    /\ ListedImpls(crate_data, 1)[1].inner.trait_ = TraitRef(<<"Display">>)
    /\ [i \in 1..Len(ParsedStructs[1].trait_impls) |->
            ParsedImplKey(ParsedStructs[1].trait_impls[i])]
       = << <<<<"Display">>, <<"method2">>>> >>

\* the lines that open an impl of a trait whose simple name is Send
SendImplLines ==
    { ImplSignature(p, Path(<<"Widget">>, <<>>)) \o brace :
        p \in { <<"Send">>, <<"core", "marker", "Send">> }, brace \in { "", " {" } }

\* C8: no line of the printed text opens an impl of a trait whose simple name
\* is Send.
C8_NoSendImplRendered ==
    \A i \in 1..Len(stdout) : stdout[i].txt \notin SendImplLines

(***************************************************************************)
(* Claims about the type resolver (checked under SpecType)                 *)
(***************************************************************************)
RecognizedKeys ==
    { "primitive", "generic", "resolved_path", "borrowed_ref", "tuple", "slice",
      "array", "raw_pointer", "qualified_path", "dyn_trait" }

\* the recognized shape keys a raw value carries
ShapeKeys(val) == IF val.t = "obj" THEN DOMAIN val.o \cap RecognizedKeys ELSE {}

\* the raw value has exactly the recognized key `key`
OnlyKey(val, key) == ShapeKeys(val) = {key}

\* a recognized key whose payload falls through to the next arm
FallsThrough(val) ==
    \/ OnlyKey(val, "primitive") /\ val.o["primitive"].t # "str"
    \/ OnlyKey(val, "generic") /\ val.o["generic"].t # "str"
    \/ OnlyKey(val, "tuple") /\ val.o["tuple"].t # "arr"
    \/ OnlyKey(val, "array") /\ IsNone(Get(val.o["array"], "type"))
    \/ OnlyKey(val, "qualified_path") /\ IsNone(AndStr(Get(val.o["qualified_path"], "name")))

\* a recognized key whose malformed payload still yields its own variant
KeepsVariant(val) ==
    \/ OnlyKey(val, "resolved_path") /\ IsNone(AndStr(Get(val.o["resolved_path"], "path")))
    \/ OnlyKey(val, "borrowed_ref") /\ IsNone(Get(val.o["borrowed_ref"], "type"))
    \/ OnlyKey(val, "raw_pointer") /\ IsNone(Get(val.o["raw_pointer"], "type"))
    \/ OnlyKey(val, "dyn_trait") /\ IsNone(AndArray(Get(val.o["dyn_trait"], "traits")))

\* C9 as stated: every raw value that has no recognized shape key, or whose
\* only recognized key carries a malformed payload, resolves to Unknown, and
\* Unknown renders as `...`.
C9_UnknownShapeOriginal ==
    tpc = "shown" /\ (ShapeKeys(raw) = {} \/ FallsThrough(raw) \/ KeepsVariant(raw))
        => Unwrap(ty) = Unknown /\ Unwrap(text) = "..."

\* C9 as amended: parse_type returns a RustType for every raw value; every
\* raw value other than null that has no recognized shape key, or whose only
\* recognized key is `primitive` or `generic` with a non-string value, `tuple`
\* with a non-array value, `array` without `type` or `qualified_path` without
\* a string `name`, resolves to Unknown, and Unknown renders as `...`; null
\* resolves to Unit, and a malformed `resolved_path`, `borrowed_ref`,
\* `raw_pointer` or `dyn_trait` payload resolves to that variant with its
\* defaults (path `unknown`, inner type Unknown, no traits).
C9_UnknownShape ==
    /\ tpc # "raw" =>
        /\ Unwrap(ty).variant \in
             { "Primitive", "Generic", "Reference", "Tuple", "Slice", "Array", "Path",
               "RawPointer", "QualifiedPath", "DynTrait", "Unit", "Unknown" }
        /\ (~is_null(raw) /\ (ShapeKeys(raw) = {} \/ FallsThrough(raw)))
              => Unwrap(ty) = Unknown
        /\ is_null(raw) => Unwrap(ty) = Unit
        /\ KeepsVariant(raw) =>
              \/ Unwrap(ty) = Path(<<"unknown">>, <<>>)
              \/ Unwrap(ty).variant = "Reference" /\ Unwrap(ty).inner = Unknown
              \/ Unwrap(ty).variant = "RawPointer" /\ Unwrap(ty).inner = Unknown
              \/ Unwrap(ty) = DynTrait(<<>>, None)
    /\ tpc = "shown" /\ Unwrap(ty) = Unknown => Unwrap(text) = "..."

\* C9 witness: an `array` payload without `type` has been resolved and shown
C9_Witness ==
    /\ tpc = "shown"
    /\ raw = JObj([array |-> JObj([len |-> JNum(4)])])
    /\ Unwrap(ty) = Unknown
    /\ Unwrap(text) = "..."

RECURSIVE WellFormed(_)
\* the raw value is built from recognized shapes only, each with the payload
\* rustdoc gives it
WellFormed(val) ==
    /\ Cardinality(ShapeKeys(val)) = 1
    /\ LET k == CHOOSE key \in ShapeKeys(val) : TRUE
           p == val.o[k]
       IN
       CASE k \in {"primitive", "generic"} -> p.t = "str"
         [] k = "resolved_path" ->
               /\ IsSome(AndStr(Get(p, "path")))
               /\ IsSome(Get(p, "args")) =>
                     /\ IsSome(AndArray(AndGet(AndGet(Get(p, "args"), "angle_bracketed"), "args")))
                     /\ \A a \in { p.o["args"].o["angle_bracketed"].o["args"].a[i] :
                                   i \in 1..Len(p.o["args"].o["angle_bracketed"].o["args"].a) } :
                           IsSome(Get(a, "type")) /\ WellFormed(a.o["type"])
         [] k = "borrowed_ref" ->
               /\ IsSome(Get(p, "type")) /\ WellFormed(p.o["type"])
               /\ IsSome(Get(p, "lifetime")) => p.o["lifetime"].t = "str"
               /\ IsSome(Get(p, "is_mutable")) => p.o["is_mutable"].t = "bool"
         [] k = "tuple" -> p.t = "arr" /\ \A i \in 1..Len(p.a) : WellFormed(p.a[i])
         [] k = "slice" -> WellFormed(p)
         [] k = "array" ->
               /\ IsSome(Get(p, "type")) /\ WellFormed(p.o["type"])
               /\ IsSome(Get(p, "len")) => p.o["len"].t \in {"num", "str"}
         [] k = "raw_pointer" ->
               /\ IsSome(AndBool(Get(p, "is_mutable")))
               /\ IsSome(Get(p, "type")) /\ WellFormed(p.o["type"])
         [] k = "qualified_path" -> IsSome(AndStr(Get(p, "name")))
         [] OTHER -> FALSE

\* the text of an array length as it stands in a declaration
LenText(len) == IF len.t = "str" THEN len.s ELSE JsonToString(len)

RECURSIVE Canon(_)
\* the canonical declaration text of a well-formed raw type expression
Canon(val) ==
    LET k == CHOOSE key \in ShapeKeys(val) : TRUE
        p == val.o[k]
        CanonArgs(args) == [i \in 1..Len(args) |-> Canon(args[i].o["type"])]
    IN
    CASE k = "primitive" -> p.s
      [] k = "generic" -> p.s
      [] k = "resolved_path" ->
            IF "args" \in DOMAIN p.o
            THEN JoinPath(p.o["path"].s) \o "<"
                 \o Join(CanonArgs(p.o["args"].o["angle_bracketed"].o["args"].a), ", ") \o ">"
            ELSE JoinPath(p.o["path"].s)
      [] k = "borrowed_ref" ->
            "&" \o (IF "lifetime" \in DOMAIN p.o THEN p.o["lifetime"].s \o " " ELSE "")
                \o (IF "is_mutable" \in DOMAIN p.o /\ p.o["is_mutable"].b THEN "mut " ELSE "")
                \o Canon(p.o["type"])
      [] k = "tuple" ->
            IF Len(p.a) = 0 THEN "()"
            ELSE "(" \o Join([i \in 1..Len(p.a) |-> Canon(p.a[i])], ", ") \o ")"
      [] k = "slice" -> "[" \o Canon(p) \o "]"
      [] k = "array" ->
            "[" \o Canon(p.o["type"]) \o "; "
                \o (IF "len" \in DOMAIN p.o THEN LenText(p.o["len"]) ELSE "N") \o "]"
      [] k = "raw_pointer" ->
            (IF p.o["is_mutable"].b THEN "*mut " ELSE "*const ") \o Canon(p.o["type"])
      [] k = "qualified_path" -> "Self::" \o p.o["name"].s

\* C10: for every raw type expression built from the recognized shapes up to
\* the nesting depth MaxDepth, the rendering of parse_type's result is the
\* canonical declaration text.
C10_CanonicalText ==
    tpc = "shown" /\ WellFormed(raw) => Unwrap(text) = Canon(raw)

\* whether an array length inside the raw value is a JSON string
RECURSIVE HasStringLen(_)
HasStringLen(val) ==
    \/ val.t = "obj" /\ \E key \in DOMAIN val.o :
          \/ key = "len" /\ val.o[key].t = "str"
          \/ HasStringLen(val.o[key])
    \/ val.t = "arr" /\ \E i \in 1..Len(val.a) : HasStringLen(val.a[i])

\* the canonical text is what is rendered whenever no array length is a JSON string
CanonicalTextNumericLen ==
    tpc = "shown" /\ WellFormed(raw) /\ ~HasStringLen(raw)
        => Unwrap(text) = Canon(raw)

(***************************************************************************)
(* Claims about the renderer (checked under SpecRender)                    *)
(***************************************************************************)
\* the pipeline has rendered: output holds the text
Rendered == pc \in { "print", "done" }
RootItems == Result.val.items
OfVariant(items, variant) == SelectSeq(items, LAMBDA item : item.variant = variant)
\* part occurs in whole as a run of consecutive lines
IsInfix(part, whole) ==
    \E k \in 0..(Len(whole) - Len(part)) : SubSeq(whole, k + 1, k + Len(part)) = part
IsBlank(line) == line.txt = ""

RECURSIVE Height(_)
\* how many levels of members an item holds
Height(item) ==
    IF item.variant = "Module"
    THEN 1 + (IF item.items = <<>> THEN 0
              ELSE LET hs == { Height(item.items[i]) : i \in 1..Len(item.items) } IN
                   CHOOSE h \in hs : \A g \in hs : g <= h)
    ELSE IF item.variant \in { "Struct", "Enum", "Trait", "TraitImpl" } THEN 1
    ELSE 0

\* the members an item holds, each with the text the renderer gives it at
\* depth d
MemberTexts(item, d) ==
    IF item.variant = "Struct"
    THEN [i \in 1..Len(item.methods) |-> RenderFunction(item.methods[i], d)]
         \o Flatten([k \in 1..Len(item.trait_impls) |->
                [i \in 1..Len(item.trait_impls[k].items) |->
                    RenderTraitImplItem(item.trait_impls[k].items[i], d)]])
    ELSE IF item.variant = "Enum"
    THEN [i \in 1..Len(item.variants) |-> RenderVariant(item.variants[i], d)]
    ELSE IF item.variant = "Trait"
    THEN [i \in 1..Len(item.items) |-> RenderTraitItem(item.items[i], d)]
    ELSE IF item.variant = "TraitImpl"
    THEN [i \in 1..Len(item.items) |-> RenderTraitImplItem(item.items[i], d)]
    ELSE IF item.variant = "Module"
    THEN [i \in 1..Len(item.items) |-> RenderItem(item.items[i], d)]
    ELSE <<>>

\* C11: once the pipeline has rendered, the text of every item of the root
\* module (rendered at depth 1) stands in the output with each of its lines
\* that is not blank at depth 1 or, for the lines of its members, one level
\* deeper per level of nesting, and every member of a struct, enum, trait,
\* trait impl or module stands in the output as rendered at depth 2,
\* whatever the names are.
C11_MembersOneDeeper ==
    Rendered =>
        \A i \in 1..Len(RootItems) :
            /\ IsInfix(RenderItem(RootItems[i], 1), output)
            /\ \A line \in Elems(RenderItem(RootItems[i], 1)) :
                    IsBlank(line) \/ line.depth \in 1..(1 + Height(RootItems[i]))
            /\ \A text_ \in Elems(MemberTexts(RootItems[i], 2)) : IsInfix(text_, output)

\* the last line of a rendered text that is not blank: its signature line
LastLine(text_) ==
    LET k == CHOOSE k \in 1..Len(text_) :
                /\ ~IsBlank(text_[k])
                /\ \A j \in (k + 1)..Len(text_) : IsBlank(text_[j])
    IN text_[k].txt

\* the function-like items of the parsed root module, each with its
\* signature, its parameter list as text and its rendered text
FunctionLikes(items) ==
    LET Plain(f) == [sig |-> f.signature,
                     vis |-> render_visibility(f.signature.visibility),
                     ins |-> InputStrs(f.signature.inputs),
                     text |-> RenderFunction(f, 0)]
        OfItem(item) ==
            IF item.variant = "Function" THEN { Plain(item) }
            ELSE IF item.variant = "Struct"
            THEN { Plain(m) : m \in Elems(item.methods) }
                 \cup UNION { { [sig |-> m.func.signature, vis |-> "",
                                 ins |-> ImplInputStrs(m.func.signature),
                                 text |-> RenderTraitImplItem(m, 0)] :
                                m \in Elems(OfVariant(ti.items, "Method")) } :
                              ti \in Elems(item.trait_impls) }
            ELSE IF item.variant = "Trait"
            THEN { [sig |-> m.func.signature, vis |-> "",
                    ins |-> InputStrs(m.func.signature.inputs),
                    text |-> RenderTraitItem(m, 0)] :
                   m \in Elems(OfVariant(item.items, "Method")) }
            ELSE {}
    IN UNION { OfItem(item) : item \in Elems(items) }
       \cup UNION { UNION { OfItem(child) : child \in Elems(m.items) } :
                    m \in Elems(OfVariant(items, "Module")) }

\* the signature lines of a function without a return type: with or
\* without its generics and where clause
ArrowFree(f) ==
    { f.vis \o "fn " \o f.sig.name \o g \o "(" \o f.ins \o ")" \o w :
        g \in { "", render_generics(f.sig.generics) },
        w \in { "", render_where_clause(f.sig.generics) } }

\* C12: once the pipeline has rendered, every module-level function, struct
\* method, trait method and trait-impl method whose parsed output type is
\* Unit and that is rendered has as its signature line, in the output, the
\* line that ends after the parameter list (and the where clause): no
\* ` -> ` and return type follow, whatever the function and its parameters
\* are named.
C12_UnitOmitsArrow ==
    Rendered =>
        \A f \in FunctionLikes(RootItems) :
            f.sig.output.variant = "Unit" /\ f.text # <<>>
                => /\ \E k \in 1..Len(output) : output[k].txt = LastLine(f.text)
                   /\ LastLine(f.text) \in ArrowFree(f)

\* the graph that differs from c by a renaming only: the struct, its first
\* method, the trait, its first method and associated type, the trait impl's
\* first method and the methods' parameter are given the plain names
Twin(c) ==
    RenderCrate(PlainNames, Len(c.index[4].inner.variants),
                [docs |-> c.index[1].docs, deprecation |-> c.index[1].deprecation],
                c.index[1].inner.generics, c.index[1].inner.sig.o.output,
                [i \in 1..(Len(c.index[0].inner.items) - 7) |-> c.index[70 + i].inner.source])

\* what a renaming leaves of a rendered text: per line, its indentation and
\* whether it is blank
Shape(text_) == [i \in 1..Len(text_) |-> [depth |-> text_[i].depth, blank |-> IsBlank(text_[i])]]

\* C13: once the pipeline has rendered a graph, the output has the same
\* lines, line for line at the same indentation and blank where the other is
\* blank, as the rendering of the graph that differs from it only by a
\* consistent renaming of the struct, the methods, the trait, the associated
\* type and the parameters.
C13_RenamingInvariant ==
    Rendered =>
        Shape(output) = Shape(ParsedRendererRender(parse_crate(Twin(crate_data)).val,
                                                   crate_data.crate_version))

\* the lines between the signature line and the closing brace of the first
\* brace block of a text rendered at depth d
BlockBody(text_, d) ==
    LET close == CHOOSE j \in 1..Len(text_) :
                    /\ text_[j] = Line(d, "}")
                    /\ \A k \in 1..(j - 1) : text_[k] # Line(d, "}")
        open == CHOOSE i \in 1..(close - 1) :
                    /\ text_[i].depth = d /\ ~IsBlank(text_[i])
                    /\ \A k \in (i + 1)..(close - 1) : text_[k].depth # d \/ IsBlank(text_[k])
    IN SubSeq(text_, open + 1, close - 1)

\* the brace blocks with members of the parsed root module's items: each
\* with its text at depth 1 and the number of its members
Blocks(items) ==
    LET OfItem(item) ==
            IF item.variant = "Struct"
            THEN (IF item.methods = <<>> THEN {}
                  ELSE { [text |-> RenderStruct(item, 1), n |-> Len(item.methods)] })
                 \cup { [text |-> RenderTraitImpl(ti, 1), n |-> Len(ti.items)] :
                        ti \in { t \in Elems(item.trait_impls) : t.items # <<>> } }
            ELSE IF item.variant = "Enum" /\ item.variants # <<>>
            THEN { [text |-> RenderEnum(item, 1), n |-> Len(item.variants)] }
            ELSE IF item.variant = "Trait" /\ item.items # <<>>
            THEN { [text |-> RenderTrait(item, 1), n |-> Len(item.items)] }
            ELSE {}
    IN UNION { OfItem(item) : item \in Elems(items) }

\* a block body of n members: a blank line after the opening brace, then the
\* members with one blank line between consecutive members and none after
\* the last
WellSeparated(body, n) ==
    /\ body # <<>>
    /\ IsBlank(body[1])
    /\ ~IsBlank(body[Len(body)])
    /\ \A i \in 1..(Len(body) - 1) : ~(IsBlank(body[i]) /\ IsBlank(body[i + 1]))
    /\ Cardinality({ i \in 1..Len(body) : IsBlank(body[i]) }) = n

\* C14: once the pipeline has rendered, every brace block with members
\* (struct methods, enum variants, trait items, trait-impl items) stands in
\* the output with exactly one blank line between consecutive members and no
\* blank line between the last member and the closing brace, for every list
\* of members.
C14_OneBlankBetweenMembers ==
    Rendered =>
        \A b \in Blocks(RootItems) :
            /\ IsInfix(b.text, output)
            /\ WellSeparated(BlockBody(b.text, 1), b.n)

\* the children of a module as the claim orders them, rendered at depth d:
\* the macros in their original order, then the other items in theirs
MacrosFirst(items, d) ==
    Flatten([i \in 1..Len(OfVariant(items, "Macro")) |->
                RenderItem(OfVariant(items, "Macro")[i], d)])
    \o Flatten([i \in 1..Len(SelectSeq(items, LAMBDA item : item.variant # "Macro")) |->
                RenderItem(SelectSeq(items, LAMBDA item : item.variant # "Macro")[i], d)])

\* the root module's children come macros first
RootMacrosFirst == Rendered => IsInfix(MacrosFirst(RootItems, 1), output)

\* C15: once the pipeline has rendered, the children of the root module
\* and the children of every module nested in it stand in the output with
\* all macros before all other items, each group in its original order.
C15_MacrosFirstEverywhere ==
    Rendered =>
        /\ IsInfix(MacrosFirst(RootItems, 1), output)
        /\ \A m \in Elems(OfVariant(RootItems, "Module")) :
                IsInfix(MacrosFirst(m.items, 2), output)

\* the paths of the `use` items the root module lists, in order
UsePaths(c) ==
    LET ids == SelectSeq(c.index[c.root].inner.items, LAMBDA id : Has(c, id, "use")) IN
    [i \in 1..Len(ids) |-> JoinPath(c.index[ids[i]].inner.source)]

\* the graph without the `use` items of its root module
WithoutUses(c) ==
    [c EXCEPT !.index[c.root].inner.items = SelectSeq(@, LAMBDA id : ~Has(c, id, "use"))]

ReExportsHeader == Line(0, "# Re-exports")

\* C16: once the pipeline has rendered a graph whose root module lists
\* `use` items, the output is the rendering of the other items followed by
\* one `# Re-exports` block: the header, a blank line, at most one doc line
\* and one `pub use <path>` line per `use` item in the original order; when
\* the root lists no `use` item the output has no `# Re-exports` line.
C16_ReExportsBlock ==
    Rendered =>
        IF UsePaths(crate_data) = <<>>
        THEN \A k \in 1..Len(output) : output[k] # ReExportsHeader
        ELSE LET body == ParsedRendererRender(parse_crate(WithoutUses(crate_data)).val,
                                              crate_data.crate_version)
                 uses == [i \in 1..Len(UsePaths(crate_data)) |->
                            Line(1, "pub use " \o UsePaths(crate_data)[i])]
             IN \E doc \in { <<>> } \cup { <<output[k]>> : k \in 1..Len(output) } :
                    output = body \o <<ReExportsHeader, BlankLine>> \o doc \o uses

\* the signature lines of a function-like item that carry its generics list
\* after the name and its where clause: whatever the return text is, and
\* with the where clause after the generics or after the return text
WithGenerics(f) ==
    { f.vis \o "fn " \o f.sig.name \o render_generics(f.sig.generics) \o w[1]
        \o "(" \o f.ins \o ")" \o r \o w[2] :
        r \in { ReturnStr(f.sig.output), " -> std::fmt::Result",
                " -> Result<HttpResponse, Self::Error>" },
        w \in { <<render_where_clause(f.sig.generics), "">>,
                <<"", render_where_clause(f.sig.generics)>> } }

\* the header line of a struct, an enum or a trait with its generics list
\* and where clause
HeaderWithGenerics(item) ==
    render_visibility(item.visibility)
    \o (IF item.variant = "Struct" THEN "struct "
        ELSE IF item.variant = "Enum" THEN "enum " ELSE "trait ")
    \o item.name \o render_generics(item.generics) \o render_where_clause(item.generics)
    \o " {"

\* C17: once the pipeline has rendered, every rendered function, struct
\* method, trait method and trait-impl method that has generic parameters
\* has as its signature line, in the output, a line with the generics list
\* after its name and with its where clause, and every struct, enum and
\* trait that has generic parameters has its header line with the generics
\* list after its name followed by its where clause.
C17_GenericsOnEveryKind ==
    Rendered =>
        /\ \A f \in FunctionLikes(RootItems) :
                f.sig.generics.params # <<>> /\ f.text # <<>>
                    => /\ \E k \in 1..Len(output) : output[k].txt = LastLine(f.text)
                       /\ LastLine(f.text) \in WithGenerics(f)
        /\ \A item \in Elems(RootItems) :
                item.variant \in { "Struct", "Enum", "Trait" } /\ item.generics.params # <<>>
                    => \E k \in 1..Len(output) : output[k] = Line(1, HeaderWithGenerics(item))

\* the function of the scenario: pub fn add(a: i32, b: i32) -> i32, with
\* the docs "Adds two numbers", no generics and no deprecation
IsAdd(item) ==
    /\ item.variant = "Function"
    /\ item.signature.name = "add"
    /\ item.signature.visibility = <<"public">>
    /\ item.signature.inputs = <<<<"a", Primitive("i32")>>, <<"b", Primitive("i32")>>>>
    /\ item.signature.output = Primitive("i32")
    /\ item.signature.generics = EmptyGenerics
    /\ item.docs = Some(<<"Adds two numbers">>)
    /\ IsNone(item.deprecation)
AddListed == \E i \in 1..Len(RootItems) : IsAdd(RootItems[i])
AddSignature == Line(1, "pub fn add(a: i32, b: i32) -> i32")
AddDocs == Line(1, "/// Adds two numbers")

Txts(text_) == [i \in 1..Len(text_) |-> text_[i].txt]

\* the rendered items of the parsed root module and of the modules nested
\* in it that can carry a deprecation or documentation, members included:
\* each with its deprecation (None for a kind that has none), its docs and
\* its text
Annotated(items) ==
    LET Of(dep, docs, text_) == [dep |-> dep, docs |-> docs, text |-> text_]
        OfMethod(m, text_) == Of(m.func.deprecation, m.func.docs, text_)
        OfItem(item) ==
            IF item.variant = "Function"
            THEN { Of(item.deprecation, item.docs, RenderFunction(item, 0)) }
            ELSE IF item.variant = "Struct"
            THEN { Of(item.deprecation, item.docs, RenderStruct(item, 0)) }
                 \cup { Of(m.deprecation, m.docs, RenderFunction(m, 0)) :
                        m \in Elems(item.methods) }
                 \cup { Of(None, ti.docs, RenderTraitImpl(ti, 0)) :
                        ti \in { t \in Elems(item.trait_impls) : IsSome(t.docs) } }
                 \cup UNION { { OfMethod(m, RenderTraitImplItem(m, 0)) :
                                m \in Elems(OfVariant(ti.items, "Method")) } :
                              ti \in Elems(item.trait_impls) }
            ELSE IF item.variant = "Enum"
            THEN { Of(item.deprecation, item.docs, RenderEnum(item, 0)) }
                 \cup { Of(None, v.docs, RenderVariant(v, 0)) : v \in Elems(item.variants) }
            ELSE IF item.variant = "Trait"
            THEN { Of(item.deprecation, item.docs, RenderTrait(item, 0)) }
                 \cup { OfMethod(m, RenderTraitItem(m, 0)) :
                        m \in Elems(OfVariant(item.items, "Method")) }
                 \cup { Of(None, a.docs, RenderTraitItem(a, 0)) :
                        a \in Elems(OfVariant(item.items, "AssocType")) }
            ELSE IF item.variant = "Constant"
            THEN { Of(item.deprecation, item.docs, RenderConstant(item, 0)) }
            ELSE IF item.variant = "Macro"
            THEN { Of(None, item.docs, RenderMacro(item, 0)) }
            ELSE IF item.variant = "Module"
            THEN { Of(None, item.docs, RenderModule(item, 0)) }
            ELSE {}
        all == UNION { OfItem(item) : item \in Elems(items) }
               \cup UNION { UNION { OfItem(child) : child \in Elems(m.items) } :
                            m \in Elems(OfVariant(items, "Module")) }
    IN { x \in all : x.text # <<>> }

\* the deprecation line of the claim
DeprecationTxt(dep) ==
    IF IsSome(dep.since) THEN "DEPRECATED since " \o Unwrap(dep.since) ELSE "DEPRECATED"

\* the documentation lines of the claims: `/// ` and the line, bare `///`
\* for a line of nothing but white space
DocTxts(docs) ==
    IF IsNone(docs) THEN <<>>
    ELSE [i \in 1..Len(Unwrap(docs)) |->
            IF Unwrap(docs)[i] \in { "", " ", "  ", "\t" } THEN "///"
            ELSE "/// " \o Unwrap(docs)[i]]

DeprecatedWithoutVersionPrinted ==
    /\ pc = "done"
    /\ IsInfix(<<Line(1, "DEPRECATED"), Line(1, "/// First line")>>, stdout)

\* the lines of the family's documentation texts that start with a space
SpaceLeading == { " indented", " ", "  " }
\* `///` followed by two spaces and the rest of such a line, or of any line
TwoSpaced ==
    { "///  " \o rest : rest \in { "indented", "", " ", "\t", "Adds two numbers", "First line" } }

\* how many lines precede the documentation lines of a rendered item: its
\* deprecation line, if it has one
DocsOffset(x) == IF IsSome(x.dep) THEN 1 ELSE 0

\* C20: once the pipeline has rendered, every rendered item with a
\* documentation text has, in the output, one line per documentation line,
\* in order: `/// ` followed by the line, or bare `///` for a blank line;
\* and such a line has `///` followed by two spaces only if the
\* documentation line starts with a space.
C20_DocLines ==
    Rendered =>
        \A x \in { y \in Annotated(RootItems) : IsSome(y.docs) } :
            /\ IsInfix(Txts(x.text), Txts(output))
            /\ Len(x.text) >= DocsOffset(x) + Len(Unwrap(x.docs))
            /\ Txts(SubSeq(x.text, DocsOffset(x) + 1, DocsOffset(x) + Len(Unwrap(x.docs))))
                    = DocTxts(x.docs)
            /\ \A i \in 1..Len(Unwrap(x.docs)) :
                    x.text[DocsOffset(x) + i].txt \in TwoSpaced
                        => Unwrap(x.docs)[i] \in SpaceLeading

\* a text with an empty line, an indented line, a line of spaces and a line
\* of a tab, printed
C20_Witness ==
    /\ pc = "done"
    /\ \E x \in Annotated(RootItems) :
            x.docs = Some(<<"First line", "", " indented", "  ", "\t">>)
    /\ IsInfix(<<Line(1, "/// First line"), Line(1, "///"), Line(1, "///  indented"),
                 Line(1, "///"), Line(1, "///"), Line(1, "pub const MAX: i32")>>, stdout)

\* the impls of StructImpls that parse_struct leaves out
ExcludedStructImpls(c) == StructImpls(c) \ ParsedStructImpls(c)

\* C28: parse_struct does not parse the members of a trait impl the filter
\* excludes: when the only nameless function of the graph is a member of an
\* excluded (synthetic, derive-attributed, blanket or suppressed-trait) impl
\* of a struct, parse_crate returns the module; when a nameless function is
\* a member of an inherent impl or of a trait impl that is kept, parse_crate
\* returns the error "Function missing name".
C28_ExcludedImplNotParsed ==
    Returned =>
        /\ (/\ ~RootAbsent
            /\ NamelessInImpl(crate_data, ExcludedStructImpls(crate_data))
            /\ ~NamelessInImpl(crate_data, ParsedStructImpls(crate_data))
            /\ ~NamelessInModule(crate_data)
            /\ ~NamelessInTrait(crate_data)) => Result.ok
        /\ NamelessInImpl(crate_data, ParsedStructImpls(crate_data))
                => Result = Err("Function missing name")

\* a run has printed the struct whose first impl, a blanket impl of
\* Display, holds a nameless method
C28_Witness ==
    /\ pc = "done"
    /\ 11 \in DOMAIN crate_data.index
    /\ crate_data.index[11].inner.trait_ = TraitRef(<<"Display">>)
    /\ IsSome(crate_data.index[11].inner.blanket_impl)
    /\ ~crate_data.index[11].inner.is_synthetic
    /\ crate_data.index[11].attrs = <<>>
    /\ IsNone(crate_data.index[31].name)
    /\ Result.ok

(***************************************************************************)
(* Claims about list order (checked under SpecOrder)                       *)
(***************************************************************************)

\* the entries of ids that have a record of one of the kinds, in the order
\* of ids
Kept(c, ids, kinds) ==
    SelectSeq(ids, LAMBDA id : id \in DOMAIN c.index /\ c.index[id].inner.kind \in kinds)

\* the names of the records the ids name
RawNames(c, ids) == [i \in 1..Len(ids) |-> Unwrap(c.index[ids[i]].name)]

\* the kinds of every record
AnyKind(c) == { c.index[id].inner.kind : id \in DOMAIN c.index }

\* the names of the function members of the inherent impls among ids, impl
\* after impl
RECURSIVE InherentNames(_, _)
InherentNames(c, ids) ==
    IF ids = <<>> THEN <<>>
    ELSE (IF /\ Head(ids) \in DOMAIN c.index
             /\ c.index[Head(ids)].inner.kind = "impl"
             /\ IsNone(c.index[Head(ids)].inner.trait_)
          THEN RawNames(c, Kept(c, c.index[Head(ids)].inner.items, { "function" }))
          ELSE <<>>)
         \o InherentNames(c, Tail(ids))

\* the name a parsed entry carries
ParsedName(p) ==
    IF "func" \in DOMAIN p THEN p.func.signature.name
    ELSE IF "name" \in DOMAIN p THEN p.name
    ELSE p.signature.name

ParsedNames(ps) == [i \in 1..Len(ps) |-> ParsedName(ps[i])]

ModuleKinds == { "function", "struct", "enum", "trait", "constant", "module", "macro" }

\* the parsed module `p` lists what the raw module `id` lists, and so does
\* every struct, enum, trait and module in it
RECURSIVE OrderKept(_, _, _)
OrderKept(c, id, p) ==
    LET kept == Kept(c, c.index[id].inner.items, ModuleKinds) IN
    /\ ParsedNames(p.items) = RawNames(c, kept)
    /\ \A i \in 1..Len(kept) :
        LET inner == c.index[kept[i]].inner IN
        CASE inner.kind = "struct" ->
                ParsedNames(p.items[i].methods) = InherentNames(c, inner.impls)
          [] inner.kind = "enum" ->
                ParsedNames(p.items[i].variants)
                    = RawNames(c, Kept(c, inner.variants, AnyKind(c)))
          [] inner.kind = "trait" ->
                ParsedNames(p.items[i].items)
                    = RawNames(c, Kept(c, inner.items,
                                       { "function", "assoc_type", "assoc_const" }))
          [] inner.kind = "module" -> OrderKept(c, kept[i], p.items[i])
          [] OTHER -> TRUE

\* C23: parsing preserves list order. The methods of a parsed struct are
\* the function members of its inherent impls, impl after impl in the order
\* of the impl list and member after member within an impl; the variants of
\* a parsed enum, the items of a parsed trait and the items of a parsed
\* module are the entries of the raw list in the raw list's order, without
\* the ids that have no record and the records of a kind the loop does not
\* recognize, an entry listed twice appearing twice.
C23_OrderPreserved ==
    Returned => Result.ok /\ OrderKept(crate_data, crate_data.root, Result.val)

\* a run has printed a crate whose struct lists the impls 11, an id without
\* a record, 10 and 10 again, and whose lists hold the third member, an id
\* without a record, a record of an unrecognized kind and the first member
C23_Witness ==
    /\ pc = "done"
    /\ 3 \in DOMAIN crate_data.index
    /\ crate_data.index[3].inner.kind = "struct"
    /\ crate_data.index[3].inner.impls = <<11, DanglingId, 10, 10>>
    /\ crate_data.index[10].inner.items = <<23, DanglingId, 21>>
    /\ crate_data.index[4].inner.variants = <<43, DanglingId, 41>>
    /\ ParsedNames(Result.val.items[1].methods) = <<"b1", "b2", "a3", "a1", "a3", "a1">>
    /\ ParsedNames(Result.val.items[2].variants) = <<"V3", "V1">>
    /\ ParsedNames(Result.val.items[3].items) = <<"T3", "t1">>
    /\ ParsedNames(Result.val.items) = <<"S", "E", "T", "m3", "f1", "inner">>

(***************************************************************************)
(* Claims about signatures (checked under SpecParse)                       *)
(***************************************************************************)
\* the raw type of the parameter of `show`, its raw where predicates and
\* the source text of the macro `m`
RawParam == crate_data.index[1].inner.sig.o.inputs.a[1].a[2]
RawPredicates ==
    IF "where_predicates" \in DOMAIN crate_data.index[1].inner.generics.o
    THEN crate_data.index[1].inner.generics.o.where_predicates.a ELSE <<>>
MacroSource == crate_data.index[2].inner.source

\* parse_crate has returned the module; the function and the macro in it
Parsed == Returned /\ Result.ok
ParsedShow == Result.val.items[1].signature
ParsedM == Result.val.items[2]

\* a raw reference to str with the given lifetime value
RefToStr(lifetime) ==
    JObj([borrowed_ref |-> JObj([lifetime |-> lifetime, is_mutable |-> JBool(FALSE),
                                 type |-> JObj([primitive |-> JStr("str")])])])

\* C22: a borrowed reference whose raw lifetime is `a`, without apostrophe,
\* and whose inner type is `str` is rendered `&'a str`, in the resolved type's
\* text and in the printed signature.
C22_LifetimeApostrophe ==
    (Parsed /\ RawParam = RefToStr(JStr("a")))
        => /\ Display(ParsedShow.inputs[1][2]) = "&'a str"
           /\ Rendered => \E i \in 1..Len(output) :
                            output[i].txt \in { "pub fn show(x: &'a str)",
                                                "pub fn show<T, U>(x: &'a str)" }

\* the path of a raw resolved path, and of the first type argument of one
RawPathOf(val) == val.o.resolved_path.o.path.s
HasArg(val) == "args" \in DOMAIN val.o.resolved_path.o
RawArgOf(val) == val.o.resolved_path.o.args.o.angle_bracketed.o.args.a[1].o.type
IsResolved(val) == val.t = "obj" /\ "resolved_path" \in DOMAIN val.o

\* a path begins with `$crate::`
HygienePrefixed(path) == Len(path) >= 2 /\ path[1] = "$crate"

\* the canonical name of a path
Canonical(path) ==
    IF path = <<"$crate", "fmt", "Formatter">> THEN <<"std", "fmt", "Formatter">>
    ELSE IF path = <<"$crate", "fmt", "Result">> THEN <<"std", "fmt", "Result">>
    ELSE IF path = <<"$crate", "clone", "Clone">> THEN <<"Clone">>
    ELSE IF path = <<"$crate", "cmp", "PartialEq">> THEN <<"PartialEq">>
    ELSE IF HygienePrefixed(path) THEN <<"std">> \o Tail(path)
    ELSE path

\* C24: parse_type gives every resolved path its canonical name (the four
\* named `$crate::` paths, `std::X` for any other `$crate::X`, the path
\* itself without the prefix), for the type and for its type arguments; no
\* resolved Path begins with `$crate::`, and normalizing a path a second time
\* changes nothing.
C24_CrateNormalized ==
    (Parsed /\ IsResolved(RawParam)) =>
        /\ ParsedShow.inputs[1][2].variant = "Path"
        /\ ParsedShow.inputs[1][2].path = Canonical(RawPathOf(RawParam))
        /\ ~HygienePrefixed(ParsedShow.inputs[1][2].path)
        /\ NormalizePath(ParsedShow.inputs[1][2].path) = ParsedShow.inputs[1][2].path
        /\ NormalizePath(NormalizePath(RawPathOf(RawParam))) = NormalizePath(RawPathOf(RawParam))
        /\ HasArg(RawParam) =>
            /\ Len(ParsedShow.inputs[1][2].generics) = 1
            /\ ParsedShow.inputs[1][2].generics[1].path = Canonical(RawPathOf(RawArgOf(RawParam)))
            /\ ~HygienePrefixed(ParsedShow.inputs[1][2].generics[1].path)

\* `$crate::vec::Vec<$crate::clone::Clone>` printed as `std::vec::Vec<Clone>`
C24_Witness ==
    /\ pc = "done"
    /\ IsResolved(RawParam)
    /\ RawPathOf(RawParam) = <<"$crate", "vec", "Vec">>
    /\ ParsedShow.inputs[1][2].path = <<"std", "vec", "Vec">>
    /\ ParsedShow.inputs[1][2].generics[1].path = <<"Clone">>
    /\ \E i \in 1..Len(stdout) : stdout[i].txt = "pub fn show(x: std::vec::Vec<Clone>)"

\* the trait paths of a raw bound predicate, in order
BoundTraits(bp) ==
    IF "bounds" \notin DOMAIN bp.o THEN <<>>
    ELSE LET traits == SelectSeq(bp.o.bounds.a, LAMBDA b : "trait_bound" \in DOMAIN b.o)
         IN [i \in 1..Len(traits) |-> Join(traits[i].o.trait_bound.o.trait.o.path.s, "::")]

\* the raw predicates that are bound predicates with a trait bound
Bounding ==
    SelectSeq(RawPredicates, LAMBDA pred :
                /\ "bound_predicate" \in DOMAIN pred.o
                /\ Len(BoundTraits(pred.o.bound_predicate)) > 0)

RECURSIVE Closing(_, _, _)
\* the position of the `)` that closes the parenthesis opened before
\* position i at nesting depth `open` (0 if there is none)
Closing(chars, i, open) ==
    IF i > Len(chars) THEN 0
    ELSE IF chars[i] = "(" THEN Closing(chars, i + 1, open + 1)
    ELSE IF chars[i] = ")" THEN (IF open = 1 THEN i ELSE Closing(chars, i + 1, open - 1))
    ELSE Closing(chars, i + 1, open)

\* the signature of a macro named `m` with the given source text: the text
\* between the first `(` and the `)` matching it
MatchedSignature(chars) ==
    IF IsNone(Find(chars, "(")) THEN "macro_rules! m"
    ELSE IF IsNone(Find(chars, ")")) THEN "macro_rules! m(...)"
    ELSE "macro_rules! m("
         \o Join(SubSeq(chars, Unwrap(Find(chars, "(")) + 1,
                        Closing(chars, Unwrap(Find(chars, "(")) + 1, 1) - 1), "")
         \o ")"

\* C26: the signature of a parsed macro is `macro_rules! <name>(<params>)`
\* with the text between the first `(` and the `)` matching it, `macro_rules!
\* <name>` for a text without `(`, `macro_rules! <name>(...)` for a text with
\* `(` and without `)`.
C26_MacroSignature ==
    Parsed => ParsedM.signature = MatchedSignature(MacroSource)

\* C27: parse_macro returns a signature for every source text of a named
\* macro: parse_crate returns the module, the macro in it.
C27_MacroNeverFails ==
    Returned => /\ Result.ok
                /\ ParsedM.variant = "Macro"

(***************************************************************************)
(* Claims about a whole run (checked under SpecWalk and SpecWalkFair)      *)
(***************************************************************************)
\* C21: on every documentation graph, once parse_crate is called the run
\* reaches the point where render has returned its text or the point where
\* a failure has been returned.
C21_Terminates == (pc = "parse") ~> (Rendered \/ pc = "failed")

\* filter_by_module_path is called and returns an error / returns Ok(())
FilterFails == pc = "filter" /\ pc' = "failed"
FilterSucceeds == pc = "filter" /\ pc' = "parse"

RECURSIVE NamedAlong(_, _, _)
\* the ids a path of names leads to from the modules `ids`: all listed
\* records bearing the name, segment after segment
NamedAlong(c, ids, segments) ==
    IF segments = <<>> THEN ids
    ELSE NamedAlong(c,
                    { id \in DOMAIN c.index :
                        /\ c.index[id].name = Some(Head(segments))
                        /\ \E m \in ids : \E k \in 1..Len(ItemsOfModule(c, m)) :
                                ItemsOfModule(c, m)[k] = id },
                    Tail(segments))

\* the segments of the path that match no named item of the module reached
Unmatched(c, path) ==
    { k \in 1..Len(path) :
        /\ NamedAlong(c, { c.root }, SubSeq(path, 1, k - 1)) # {}
        /\ NamedAlong(c, { c.root }, SubSeq(path, 1, k)) = {} }

\* C29: whenever a segment of the module path matches no named item of the
\* item list of the module reached so far, filter_by_module_path returns the
\* error `Module '<segment>' not found in the path '<path>'` and the crate
\* (root, index, every record and its name) is as it was before the call; and
\* it returns an error in no other case.
C29_AtomicOnFailure ==
    [][ /\ (pc = "filter" /\ Unmatched(crate_data, Unwrap(module_path)) # {})
            => FilterFails
        /\ FilterFails =>
            /\ crate_data' = crate_data
            /\ \E k \in Unmatched(crate_data, Unwrap(module_path)) :
                    filtered' = Some(Err("Module '" \o Unwrap(module_path)[k]
                                         \o "' not found in the path '"
                                         \o Join(Unwrap(module_path), "::") \o "'")) ]_vars

\* the second segment of `nested::missing` is not found
C29_Witness ==
    /\ pc = "failed"
    /\ module_path = Some(<<"nested", "missing">>)
    /\ filtered = Some(Err("Module 'missing' not found in the path 'nested::missing'"))
    /\ crate_data.root = 0
    /\ 3 \in DOMAIN crate_data.index

RECURSIVE ModulesFrom(_, _, _)
\* the modules reached from `ids` through at most n module item lists
ModulesFrom(c, ids, n) ==
    IF n = 0 THEN ids
    ELSE ModulesFrom(c, ids \cup { id \in DOMAIN c.index :
                                     /\ IsModule(c, id)
                                     /\ \E m \in ids : \E k \in 1..Len(ItemsOfModule(c, m)) :
                                            ItemsOfModule(c, m)[k] = id },
                     n - 1)

\* the target and every id listed by a module reached from it
ListedFrom(c, target) ==
    { target } \cup { id \in DOMAIN c.index :
                        \E m \in ModulesFrom(c, { target }, Cardinality(DOMAIN c.index)) :
                            \E k \in 1..Len(ItemsOfModule(c, m)) : ItemsOfModule(c, m)[k] = id }

\* C30: when filter_by_module_path returns Ok(()), the root is an id the
\* path of names leads to, the index holds the records of exactly the target and the
\* ids listed by the modules reached from it through module item lists, each
\* record as it was; a record that only a struct's impls or fields, an enum's
\* variants, a trait's items or an impl's items refer to is gone.
C30_FilteredIndex ==
    [][ FilterSucceeds =>
            /\ crate_data'.root
                    \in NamedAlong(crate_data, { crate_data.root }, Unwrap(module_path))
            /\ DOMAIN crate_data'.index = ListedFrom(crate_data, crate_data'.root)
            /\ \A id \in DOMAIN crate_data'.index : crate_data'.index[id] = crate_data.index[id]
            /\ crate_data'.crate_version = crate_data.crate_version
            /\ filtered' = Some(Ok(<<>>)) ]_vars

\* filtered to `nested`, which lists the struct Point: the nested modules,
\* their functions and the struct are kept, the struct's field and impls and
\* their methods are gone, as are the other items of the old root
C30_Witness ==
    /\ pc = "parse"
    /\ module_path = Some(<<"nested">>)
    /\ filtered = Some(Ok(<<>>))
    /\ crate_data.root = ChainModuleId(1)
    /\ DOMAIN crate_data.index
            = { ChainModuleId(d) : d \in 1..MaxModuleDepth }
              \cup { ChainFunctionId(d) : d \in 1..MaxModuleDepth } \cup { 3 }
    /\ crate_data.index[3].inner.impls = <<9, 10, 11>>

====
